---- MODULE Spec2Model ----
(***************************************************************************)
(* Verification model of the merchant backend's webhook decision pipeline: *)
(* duplicate tracker, retrying ledger client, listener registry check,     *)
(* payment/receipt verification, proof generator and the webhook           *)
(* orchestrator (handleWebhook).                                           *)
(***************************************************************************)
EXTENDS Integers, Sequences, FiniteSets, Bags, TLC

VARIABLES
    env,                \* process.env: the flags the code reads
    io,                 \* socketServer's io: TRUE once initializeWebSocket has run
    now,                \* Date.now(), in milliseconds
    ticks,              \* how many times the clock has advanced
    processedWebhooks,  \* DuplicateTrackerService.processedWebhooks (a Map)
    orders,             \* the order store (prisma.order)
    monitoringJobs,     \* confirmationMonitor's monitoringJobs (a Map)
    req,                \* the webhook requests: input, position, locals, response
    markLog,            \* history: every markWebhookProcessed call, in order
    evicted,            \* history: paymentIds that cleanup() has deleted
    script,             \* retrying ledger call: what each invocation of fn does
    retryOut,           \* retrying ledger call: what the call has produced
    monitor             \* confirmation monitor: live timers, polls in flight, history

vars == <<env, io, now, ticks, processedWebhooks, orders, monitoringJobs, req,
          markLog, evicted, script, retryOut, monitor>>

-----------------------------------------------------------------------------
(* Bounds of the model *)

MaxTicks == 1       \* clock advances explored
MaxMarks == 3
MaxTimers == 2
MaxPolls == 2       \* direct markWebhookProcessed calls explored (tracker API)

-----------------------------------------------------------------------------
(* Program constants *)

maxAge == 86400000          \* 24 * 60 * 60 * 1000
baseDelay == 1000
maxDelay == 5000
maxRetries == 3
clockSkew == 60000
proofExpirySeconds == 3600
minConfirmations == 3
minListenerReputation == 30
minListenerStake == 10      \* '0.01' ETH, in units of 10^15 wei

Min(a, b) == IF a < b THEN a ELSE b

RECURSIVE Pow2(_)
Pow2(n) == IF n <= 0 THEN 1 ELSE 2 * Pow2(n - 1)

\* An optional value (T | null | undefined) is the empty set or a singleton.
None == {}
Some(x) == {x}
The(o) == CHOOSE x \in o : TRUE

-----------------------------------------------------------------------------
(* Values *)

\* payment_id is any string (z.string()); one is a 32-byte hex string, one is not.
PidHex == "0x7061796d656e742d31"
PidText == "order-2"
PaymentIds == {PidHex, PidText}
Bytes32Ids == {PidHex}

\* x-node-address: absent/empty, two registered listeners, one malformed string.
NoAddress == ""
AddrGood == "0xAa01"
AddrSlashed == "0xBb02"
AddrMalformed == "not-an-address"
AddrOther == "0xFf99"
MerchantAddress == "0xCc03"
Customer == "0xDd04"
WellFormedAddresses == {AddrGood, AddrSlashed, AddrOther, MerchantAddress}

isAddress(a) == a \in WellFormedAddresses

\* A signature string: empty, an ECDSA signature (by a key, over a message),
\* or a non-empty string that is no signature.
NoSignature == [kind |-> "none", by |-> "", over |-> <<>>]
GarbageSignature == [kind |-> "garbage", by |-> "", over |-> <<>>]
Sign(key, message) == [kind |-> "ecdsa", by |-> key, over |-> message]
Truthy(sig) == sig.kind # "none"

-----------------------------------------------------------------------------
(* DuplicateTrackerService  (src/src/services/duplicateTracker.ts) *)

isWebhookProcessedNever(map, paymentId) == FALSE

isWebhookProcessedAlways(map, paymentId) == TRUE

isWebhookProcessed(map, paymentId) == paymentId \in DOMAIN map

markWebhookProcessedLostWrite(map, paymentId, listenerAddress, signature, t) ==
    map

markWebhookProcessed(map, paymentId, listenerAddress, signature, t) ==
    [p \in (DOMAIN map) \cup {paymentId} |->
        IF p = paymentId
        THEN [listener |-> listenerAddress, timestamp |-> t, signature |-> signature]
        ELSE map[p]]

getProcessingListenerNone(map, paymentId) == None

getProcessingListener(map, paymentId) ==
    IF paymentId \in DOMAIN map THEN Some(map[paymentId]) ELSE None

cleanupAtWindow(map, t) ==
    [p \in {q \in DOMAIN map : ~(t - map[q].timestamp >= maxAge)} |-> map[p]]

cleanup(map, t) ==
    [p \in {q \in DOMAIN map : ~(t - map[q].timestamp > maxAge)} |-> map[p]]

EmptyMap == [p \in {} |-> 0]

-----------------------------------------------------------------------------
(* Retrying ledger call  (src/src/services/listenerVerification.ts) *)

\* An error is its code and the words of its message.
ErrTimeout == [code |-> "TIMEOUT", message |-> <<"request", "timeout">>]
ErrNetwork == [code |-> "NETWORK_ERROR", message |-> <<"could", "not", "connect">>]
ErrMsgNetwork == [code |-> "SERVER_ERROR", message |-> <<"network", "unreachable">>]
ErrRevert == [code |-> "CALL_EXCEPTION", message |-> <<"execution", "reverted">>]
ErrBadAddress == [code |-> "INVALID_ARGUMENT", message |-> <<"invalid", "address">>]
Errors == {ErrTimeout, ErrNetwork, ErrMsgNetwork, ErrRevert, ErrBadAddress}

includes(message, word) == \E i \in 1..Len(message) : message[i] = word

isTimeout(error) ==
    \/ error.code = "TIMEOUT"
    \/ error.code = "ETIMEDOUT"
    \/ error.code = "NETWORK_ERROR"
    \/ includes(error.message, "timeout")
    \/ includes(error.message, "network")

\* What one invocation of fn does: it resolves with a value or rejects with an error.
Resolve(v) == [ok |-> TRUE, value |-> v]
Reject(e) == [ok |-> FALSE, error |-> e]

backoffDelayShifted(attempt) == Min(baseDelay * Pow2(attempt), maxDelay)

\* The delay slept after failed attempt number `attempt`.
backoffDelay(attempt) == Min(baseDelay * Pow2(attempt - 1), maxDelay)

\* The for loop of retryWithBackoff from iteration `attempt` on; fn's successive
\* invocations behave as outs[1], outs[2], ...  `slept` are the delays so far.
RECURSIVE retryLoop(_, _, _, _)
retryLoop(outs, attempt, limit, slept) ==
    IF outs[attempt].ok
    THEN [returned |-> TRUE, outcome |-> outs[attempt], calls |-> attempt, slept |-> slept]
    ELSE IF attempt < limit /\ isTimeout(outs[attempt].error)
    THEN retryLoop(outs, attempt + 1, limit, Append(slept, backoffDelay(attempt)))
    ELSE [returned |-> FALSE, outcome |-> outs[attempt], calls |-> attempt, slept |-> slept]

retryWithBackoffNoRetry(outs, limit) ==
    [returned |-> outs[1].ok, outcome |-> outs[1], calls |-> 1, slept |-> <<>>]

retryWithBackoff(outs, limit) == retryLoop(outs, 1, limit, <<>>)

-----------------------------------------------------------------------------
(* Listener registry check  (src/src/services/listenerVerification.ts) *)

\* What getListener returns: the fields of the tuple the check reads
\* (result[8], result[9], result[1], result[7]); stake in units of 10^15 wei.
ListenerTuple(active, slashed, stake, reputation) ==
    [active |-> active, slashed |-> slashed, stake |-> stake, reputation |-> reputation]

\* The registry contract's storage; an unregistered address reads as zeros.
Registry(address) ==
    IF address = AddrGood THEN ListenerTuple(TRUE, FALSE, 1000, 80)
    ELSE IF address = AddrSlashed THEN ListenerTuple(TRUE, TRUE, 1000, 80)
    ELSE ListenerTuple(FALSE, FALSE, 0, 0)

NoInfo == [address |-> "", degraded |-> FALSE]

verifyListenerRegisteredNoSlashCheck(listenerAddress, outs, allowDuringRpcFailure) ==
    LET r == retryWithBackoff(outs, maxRetries) IN
    IF r.returned /\ r.outcome.value.active
    THEN [isValid |-> TRUE, reason |-> "", listenerInfo |-> [address |-> listenerAddress, degraded |-> FALSE]]
    ELSE [isValid |-> FALSE, reason |-> "Listener is not active", listenerInfo |-> NoInfo]

verifyListenerRegisteredStakeFirst(listenerAddress, outs, allowDuringRpcFailure) ==
    LET r == retryWithBackoff(outs, maxRetries) IN
    IF r.returned
    THEN LET result == r.outcome.value IN
         IF ~result.active
         THEN [isValid |-> FALSE, reason |-> "Listener is not active", listenerInfo |-> NoInfo]
         ELSE IF result.stake < minListenerStake
         THEN [isValid |-> FALSE, reason |-> "Listener stake too low", listenerInfo |-> NoInfo]
         ELSE IF result.slashed
         THEN [isValid |-> FALSE, reason |-> "Listener has been slashed (banned)", listenerInfo |-> NoInfo]
         ELSE IF result.reputation < minListenerReputation
         THEN [isValid |-> FALSE, reason |-> "Listener reputation too low", listenerInfo |-> NoInfo]
         ELSE [isValid |-> TRUE, reason |-> "",
               listenerInfo |-> [address |-> listenerAddress, degraded |-> FALSE]]
    ELSE [isValid |-> FALSE, reason |-> "Blockchain query failed after 3 retries",
          listenerInfo |-> NoInfo]

verifyListenerRegisteredFailOpen(listenerAddress, outs, allowDuringRpcFailure) ==
    LET r == retryWithBackoff(outs, maxRetries) IN
    IF r.returned /\ ~r.outcome.value.active
    THEN [isValid |-> FALSE, reason |-> "Listener is not active", listenerInfo |-> NoInfo]
    ELSE [isValid |-> TRUE, reason |-> "",
          listenerInfo |-> [address |-> listenerAddress, degraded |-> ~r.returned]]

\* outs: what the successive invocations of registryContract.getListener do.
verifyListenerRegistered(listenerAddress, outs, allowDuringRpcFailure) ==
    LET r == retryWithBackoff(outs, maxRetries) IN
    IF r.returned
    THEN LET result == r.outcome.value IN
         IF ~result.active
         THEN [isValid |-> FALSE, reason |-> "Listener is not active", listenerInfo |-> NoInfo]
         ELSE IF result.slashed
         THEN [isValid |-> FALSE, reason |-> "Listener has been slashed (banned)", listenerInfo |-> NoInfo]
         ELSE IF result.stake < minListenerStake
         THEN [isValid |-> FALSE, reason |-> "Listener stake too low", listenerInfo |-> NoInfo]
         ELSE IF result.reputation < minListenerReputation
         THEN [isValid |-> FALSE, reason |-> "Listener reputation too low", listenerInfo |-> NoInfo]
         ELSE [isValid |-> TRUE, reason |-> "",
               listenerInfo |-> [address |-> listenerAddress, degraded |-> FALSE]]
    ELSE IF allowDuringRpcFailure
         THEN [isValid |-> TRUE,
               reason |-> "Verification skipped due to RPC failure (degraded mode)",
               listenerInfo |-> [address |-> listenerAddress, degraded |-> TRUE]]
         ELSE [isValid |-> FALSE, reason |-> "Blockchain query failed after 3 retries",
               listenerInfo |-> NoInfo]

-----------------------------------------------------------------------------
(* Payment and receipt verification  (src/unnamed/part_001) *)

\* ethers.parseEther throws on a string that is no decimal number.
ParseableAmounts == {"1.5"}
Amounts == {"1.5", "abc"}

\* The payment records of the ledger (the PaymentDatabase contract the disabled
\* query would read): paymentId, merchant and customer of each payment held.
PaymentDatabase ==
    {[paymentId |-> PidHex, merchant |-> MerchantAddress, customer |-> Customer]}

verifyPaymentOnChain(paymentId, merchant, customer, amount, skipVerification) ==
    IF skipVerification
    THEN IF amount \in ParseableAmounts
         THEN [isValid |-> TRUE, reason |-> ""]
         ELSE [isValid |-> FALSE, reason |-> "Blockchain query failed"]
    ELSE [isValid |-> FALSE,
          reason |-> "Payment verification enabled but PaymentDatabase not available"]

\* A transaction receipt as the provider returns it; null when there is none.
NullReceipt == [found |-> FALSE, status |-> 0, blockNumber |-> 0]
Receipt(status, blockNumber) == [found |-> TRUE, status |-> status, blockNumber |-> blockNumber]

NoNumber == None

\* receipts: what the successive invocations of provider.getTransactionReceipt do;
\* height: what provider.getBlockNumber does.
verifyTransactionReceipt(receipts, height) ==
    LET first == receipts[1] IN
    IF ~first.ok
    THEN [isValid |-> FALSE, reason |-> "Transaction query failed",
          confirmations |-> NoNumber, blockNumber |-> NoNumber, calls |-> 1]
    ELSE IF ~first.value.found
    THEN [isValid |-> FALSE, reason |-> "Transaction not found on blockchain",
          confirmations |-> NoNumber, blockNumber |-> NoNumber, calls |-> 1]
    ELSE IF first.value.status # 1
    THEN [isValid |-> FALSE, reason |-> "Transaction failed (status 0)",
          confirmations |-> NoNumber, blockNumber |-> NoNumber, calls |-> 1]
    ELSE IF ~height.ok
    THEN [isValid |-> FALSE, reason |-> "Transaction query failed",
          confirmations |-> NoNumber, blockNumber |-> NoNumber, calls |-> 1]
    ELSE LET confirmations == height.value - first.value.blockNumber IN
         IF confirmations < minConfirmations
         THEN [isValid |-> FALSE, reason |-> "Insufficient confirmations",
               confirmations |-> Some(confirmations),
               blockNumber |-> Some(first.value.blockNumber), calls |-> 1]
         ELSE [isValid |-> TRUE, reason |-> "",
               confirmations |-> Some(confirmations),
               blockNumber |-> Some(first.value.blockNumber), calls |-> 1]

-----------------------------------------------------------------------------
(* State shared by the specifications *)

StartTime == 1 + clockSkew  \* the model's clock counts milliseconds from an origin

NodeEnvs == {"production"}

\* A variable of process.env is unset or holds a string; the code compares the
\* two toggles with the string 'true'.
EnvValues == {None, Some("true"), Some("false"), Some("1")}
IsTrue(v) == v = Some("true")

\* The environments of the pipeline: each toggle unset or set to 'true'.
Envs == [SKIP_PAYMENT_VERIFICATION : {None, Some("true")},
         ALLOW_DURING_RPC_FAILURE : {None, Some("true")}, nodeEnv : NodeEnvs]

ReqIds == {1, 2}

NoResponse == None
NoHash == <<>>

IdleReq ==
    [pc |-> "idle", type |-> "", payment_id |-> "", amount |-> "",
     transaction_hash |-> NoHash,
     listenerAddress |-> NoAddress, confirmations |-> NoNumber, order |-> None,
     confirmedAt |-> NoNumber,   \* `new Date()` of the order update's data (220)
     merchantProof |-> None, res |-> NoResponse,
     \* history of the request, read by the properties only
     sigVerified |-> FALSE, sawSlashed |-> FALSE, passed |-> FALSE,
     after |-> {}, failed |-> "", stale |-> FALSE, stages |-> <<>>, tracked |-> FALSE,
     proofCalls |-> 0, marks |-> 0, doneAt |-> 0, collab |-> {}]

NoScript == [op |-> "none", outs |-> <<>>, height |-> Resolve(0), address |-> NoAddress]

\* The clock advances by the retention window, or by a millisecond more.
Jumps == {maxAge, maxAge + 1}

Tick ==
    /\ ticks < MaxTicks
    /\ \E d \in Jumps : now' = now + d
    /\ ticks' = ticks + 1
    /\ UNCHANGED <<env, io, processedWebhooks, orders, monitoringJobs, monitor, req, markLog,
                   evicted, script, retryOut>>

\* The hourly timer of the tracker's constructor fires.
Cleanup ==
    /\ processedWebhooks' = cleanup(processedWebhooks, now)
    /\ evicted' = evicted \cup ((DOMAIN processedWebhooks) \ (DOMAIN processedWebhooks'))
    /\ UNCHANGED <<env, io, now, ticks, orders, monitoringJobs, monitor, req, markLog, script, retryOut>>

-----------------------------------------------------------------------------
(* SpecTracker: the duplicate tracker under arbitrary callers *)

TrackerListeners == {AddrGood, AddrSlashed}
TrackerSignatures == {NoSignature, Sign(MerchantAddress, <<PidHex, AddrGood>>)}

Mark(paymentId, listenerAddress, signature) ==
    /\ processedWebhooks' =
           markWebhookProcessed(processedWebhooks, paymentId, listenerAddress, signature, now)
    /\ markLog' = Append(markLog, [paymentId |-> paymentId, listener |-> listenerAddress,
                                   signature |-> signature, timestamp |-> now])

TrackerMark ==
    /\ Len(markLog) < MaxMarks
    /\ \E p \in PaymentIds, l \in TrackerListeners, s \in TrackerSignatures : Mark(p, l, s)
    /\ UNCHANGED <<env, io, now, ticks, orders, monitoringJobs, monitor, req, evicted, script, retryOut>>

\* No setInterval timer is live and no poll is running.
NoCall == [op |-> "none", orderId |-> "", chain |-> "", had |-> FALSE]
IdleMonitor ==
    [timers |-> EmptyMap,   \* the live setInterval timers and what each closes over
     nextTimer |-> 1,       \* the identity of the next Timeout object
     polls |-> EmptyBag,    \* the invocations of the interval callback in flight
     ran |-> EmptyMap,      \* history: per timer, how often each completion step ran
     last |-> NoCall]       \* history: the last of: a call of start or stop
                            \* (had: the job existed), a poll that raised an
                            \* error (had: its job was registered), a
                            \* confirmation email attempt (had: it was sent)

InitCommon ==
    /\ now = StartTime
    /\ monitor = IdleMonitor
    /\ ticks = 0
    /\ processedWebhooks = EmptyMap
    /\ monitoringJobs = EmptyMap
    /\ req = [r \in ReqIds |-> IdleReq]
    /\ markLog = <<>>
    /\ evicted = {}
    /\ retryOut = None

InitTracker ==
    /\ InitCommon
    /\ io = TRUE
    /\ env = [SKIP_PAYMENT_VERIFICATION |-> None, ALLOW_DURING_RPC_FAILURE |-> None,
              nodeEnv |-> "production"]
    /\ orders = EmptyMap
    /\ script = NoScript

NextTracker == TrackerMark \/ Cleanup \/ Tick

SpecTracker == InitTracker /\ [][NextTracker]_vars

\* The marks recorded for a paymentId, oldest first.
MarksOf(p) == SelectSeq(markLog, LAMBDA m : m.paymentId = p)

EntryOf(m) == [listener |-> m.listener, timestamp |-> m.timestamp, signature |-> m.signature]

-----------------------------------------------------------------------------
(* SpecLedger: the ledger-facing functions on scripted ledger behaviour *)

ListenerOutcomes ==
    {Resolve(Registry(a)) : a \in {AddrGood, AddrSlashed, AddrOther}}
        \cup {Reject(e) : e \in Errors}
ReceiptOutcomes ==
    {Resolve(NullReceipt), Resolve(Receipt(0, 100)), Resolve(Receipt(1, 100))}
        \cup {Reject(e) : e \in {ErrTimeout, ErrRevert}}
HeightOutcomes == {Resolve(101), Resolve(103), Reject(ErrTimeout)}

Scripts(outcomes) == [1..maxRetries -> outcomes]

\* Registry records around the thresholds, read after k - 1 timeouts.
Stakes == {0, minListenerStake - 1, minListenerStake, 1000}
Reputations == {0, minListenerReputation - 1, minListenerReputation, 80}
ListenerTuples ==
    {ListenerTuple(a, sl, st, rp) :
        a \in BOOLEAN, sl \in BOOLEAN, st \in Stakes, rp \in Reputations}
TupleScripts ==
    {[i \in 1..maxRetries |-> IF i < k THEN Reject(ErrTimeout) ELSE Resolve(t)] :
        k \in 1..maxRetries, t \in ListenerTuples}

\* The environments of the ledger-facing functions: the toggle a function reads
\* is unset or holds any string.
LedgerEnv(skip, allow) ==
    [SKIP_PAYMENT_VERIFICATION |-> skip, ALLOW_DURING_RPC_FAILURE |-> allow,
     nodeEnv |-> "production"]

InitLedger ==
    /\ InitCommon
    /\ io = TRUE
    /\ orders = EmptyMap
    /\ \/ /\ \E outs \in Scripts(ListenerOutcomes) :
                script = [op |-> "retryWithBackoff", outs |-> outs,
                          height |-> Resolve(0), address |-> AddrGood]
          /\ env = LedgerEnv(None, None)
       \/ /\ \E outs \in Scripts(ListenerOutcomes) \cup TupleScripts :
                script = [op |-> "verifyListenerRegistered", outs |-> outs,
                          height |-> Resolve(0), address |-> AddrGood]
          /\ \E allow \in EnvValues : env = LedgerEnv(None, allow)
       \/ /\ \E outs \in Scripts(ReceiptOutcomes), h \in HeightOutcomes :
                script = [op |-> "verifyTransactionReceipt", outs |-> outs, height |-> h,
                          address |-> NoAddress]
          /\ env = LedgerEnv(None, None)
       \/ /\ \E p \in PaymentIds, a \in Amounts :
                script = [op |-> "verifyPaymentOnChain", outs |-> <<>>,
                          height |-> Resolve(0), address |-> NoAddress,
                          paymentId |-> p, amount |-> a]
          /\ \E skip \in EnvValues : env = LedgerEnv(skip, None)

LedgerFrame ==
    UNCHANGED <<env, io, now, ticks, processedWebhooks, orders, monitoringJobs, monitor, req,
                markLog, evicted, script>>

CallRetry ==
    /\ script.op = "retryWithBackoff"
    /\ retryOut = None
    /\ retryOut' = Some(retryWithBackoff(script.outs, maxRetries))
    /\ LedgerFrame

CallRegistered ==
    /\ script.op = "verifyListenerRegistered"
    /\ retryOut = None
    /\ retryOut' = Some(verifyListenerRegistered(script.address, script.outs,
                                                 IsTrue(env.ALLOW_DURING_RPC_FAILURE)))
    /\ LedgerFrame

CallReceipt ==
    /\ script.op = "verifyTransactionReceipt"
    /\ retryOut = None
    /\ retryOut' = Some(verifyTransactionReceipt(script.outs, script.height))
    /\ LedgerFrame

CallPayment ==
    /\ script.op = "verifyPaymentOnChain"
    /\ retryOut = None
    /\ retryOut' = Some(verifyPaymentOnChain(script.paymentId, MerchantAddress, Customer,
                                             script.amount,
                                             IsTrue(env.SKIP_PAYMENT_VERIFICATION)))
    /\ LedgerFrame

NextLedger == CallRetry \/ CallRegistered \/ CallReceipt \/ CallPayment

SpecLedger == InitLedger /\ [][NextLedger]_vars

-----------------------------------------------------------------------------
(* Signature verifier  (src/src/services/listenerVerification.ts) *)

\* The fields of the body that the handler does not branch on.
ChainId == "11155111"
PayloadTime == StartTime
TxOf(paymentId) == <<"tx", paymentId>>

\* A body that passes the schema but for its type; timestamp is z.number() and
\* transaction_hash any string the sender chooses.
PayloadWith(type, paymentId, amount, timestamp, transactionHash) ==
    [type |-> type, payment_id |-> paymentId, merchant |-> MerchantAddress,
     customer |-> Customer, amount |-> amount, timestamp |-> timestamp,
     chain_id |-> ChainId, transaction_hash |-> transactionHash]

\* The body of a listener that reports the payment's own transaction.
PayloadAt(type, paymentId, amount, timestamp) ==
    PayloadWith(type, paymentId, amount, timestamp, TxOf(paymentId))

Payload(type, paymentId, amount) == PayloadAt(type, paymentId, amount, PayloadTime)

\* JSON.stringify of the six signed fields, in the order the code lists them.
CanonicalMessage(payload) ==
    <<payload.type, payload.payment_id, payload.merchant, payload.amount,
      payload.timestamp, payload.chain_id>>

\* String.prototype.toLowerCase on the address strings of the model.
toLowerCase(a) ==
    CASE a = "0xAa01" -> "0xaa01"
      [] a = "0xBb02" -> "0xbb02"
      [] a = "0xCc03" -> "0xcc03"
      [] a = "0xDd04" -> "0xdd04"
      [] a = "0xEe77" -> "0xee77"
      [] a = "0xFf99" -> "0xff99"
      [] OTHER -> a

\* The address ECDSA recovery yields for a signature made over another message.
AddrRecovered == "0xEe77"

\* ethers.verifyMessage: the signer's address; it throws on a malformed signature.
verifyMessage(message, signature) ==
    IF signature.kind # "ecdsa" THEN [threw |-> TRUE, address |-> ""]
    ELSE IF signature.over = message THEN [threw |-> FALSE, address |-> signature.by]
    ELSE [threw |-> FALSE, address |-> AddrRecovered]

verifyListenerSignatureAcceptAll(payload, signature, listenerAddress) == TRUE

verifyListenerSignatureCaseSensitive(payload, signature, listenerAddress) ==
    IF ~Truthy(signature) \/ listenerAddress = NoAddress THEN FALSE
    ELSE LET recovered == verifyMessage(CanonicalMessage(payload), signature) IN
         IF recovered.threw THEN FALSE
         ELSE recovered.address = listenerAddress

verifyListenerSignature(payload, signature, listenerAddress) ==
    IF ~Truthy(signature) \/ listenerAddress = NoAddress THEN FALSE
    ELSE LET recovered == verifyMessage(CanonicalMessage(payload), signature) IN
         IF recovered.threw THEN FALSE
         ELSE toLowerCase(recovered.address) = toLowerCase(listenerAddress)

-----------------------------------------------------------------------------
(* Proof generator  (src/src/services/proofGenerator.ts) *)

\* "" when the parameters pass, else the message of the error thrown; t is Date.now().
validateProofParamsNoSkew(params, t) ==
    IF params.payment_id = "" THEN "payment_id is required"
    ELSE IF params.listener_address = NoAddress \/ ~isAddress(params.listener_address)
    THEN "Valid listener_address is required"
    ELSE IF params.timestamp <= 0 THEN "Valid timestamp is required"
    ELSE IF t - params.timestamp > proofExpirySeconds * 1000 THEN "Timestamp too old"
    ELSE IF params.timestamp > t THEN "Timestamp is in the future"
    ELSE ""

validateProofParams(params, t) ==
    IF params.payment_id = "" THEN "payment_id is required"
    ELSE IF params.listener_address = NoAddress \/ ~isAddress(params.listener_address)
    THEN "Valid listener_address is required"
    ELSE IF params.timestamp <= 0 THEN "Valid timestamp is required"
    ELSE IF t - params.timestamp > proofExpirySeconds * 1000 THEN "Timestamp too old"
    ELSE IF params.timestamp > t + clockSkew THEN "Timestamp is in the future"
    ELSE ""

NoProof == None

\* The simple method: a signature by the merchant key over the packed hash of
\* (bytes32 payment_id, address listener_address); packing throws when payment_id
\* is no 32-byte hex string.
generateMerchantProofAnyId(params, t) ==
    IF validateProofParams(params, t) # "" THEN NoProof
    ELSE LET message == <<params.payment_id, params.listener_address>> IN
         Some([message |-> message, signature |-> Sign(MerchantAddress, message),
               timestamp |-> params.timestamp, method |-> "simple"])

generateMerchantProof(params, t) ==
    IF validateProofParams(params, t) # "" THEN NoProof
    ELSE IF params.payment_id \notin Bytes32Ids THEN NoProof
    ELSE LET message == <<params.payment_id, params.listener_address>> IN
         Some([message |-> message, signature |-> Sign(MerchantAddress, message),
               timestamp |-> params.timestamp, method |-> "simple"])

\* The typed method: signTypedData over the WebhookConfirmation record. The
\* encoder throws on a paymentId that is no bytes32, on a listener that is no
\* address and on a negative timestamp (uint256); parseEther throws on an amount
\* that is no decimal number. validateProofParams is not called.
generateEIP712Signature(params, t) ==
    IF params.payment_id \notin Bytes32Ids THEN NoProof
    ELSE IF ~isAddress(params.listener_address) THEN NoProof
    ELSE IF params.amount \notin ParseableAmounts THEN NoProof
    ELSE IF params.timestamp < 0 THEN NoProof
    ELSE LET value == <<params.payment_id, params.listener_address, MerchantAddress,
                        params.amount, params.order_id, params.timestamp,
                        params.webhook_received>> IN
         Some([value |-> value, signature |-> Sign(MerchantAddress, value),
               timestamp |-> params.timestamp, method |-> "eip712"])

-----------------------------------------------------------------------------
(* Confirmation monitor registry  (src/src/services/proofGenerator.ts, 220-306) *)

REQUIRED_CONFIRMATIONS == 12

\* The monitor as its functions see it: the Map from orderId to the Timeout
\* object, the timers that are live and the next Timeout to be created.
MonitorState ==
    [jobs |-> monitoringJobs, timers |-> monitor.timers, nextTimer |-> monitor.nextTimer]

Restrict(f, S) == [x \in S |-> f[x]]

startConfirmationMonitoringNoGuard(m, orderId, txHash, chain) ==
    LET intervalId == m.nextTimer IN
    [jobs |-> (orderId :> intervalId) @@ m.jobs,
     timers |-> (intervalId :> [orderId |-> orderId, txHash |-> txHash, chain |-> chain])
                    @@ m.timers,
     nextTimer |-> intervalId + 1]

startConfirmationMonitoring(m, orderId, txHash, chain) ==
    IF orderId \in DOMAIN m.jobs THEN m
    ELSE LET intervalId == m.nextTimer IN
         [jobs |-> (orderId :> intervalId) @@ m.jobs,
          timers |-> (intervalId :> [orderId |-> orderId, txHash |-> txHash, chain |-> chain])
                         @@ m.timers,
          nextTimer |-> intervalId + 1]

stopConfirmationMonitoringKeepTimer(m, orderId) ==
    [m EXCEPT !.jobs = Restrict(m.jobs, (DOMAIN m.jobs) \ {orderId})]

stopConfirmationMonitoring(m, orderId) ==
    IF orderId \in DOMAIN m.jobs
    THEN [jobs |-> Restrict(m.jobs, (DOMAIN m.jobs) \ {orderId}),
          timers |-> Restrict(m.timers, (DOMAIN m.timers) \ {m.jobs[orderId]}),
          nextTimer |-> m.nextTimer]
    ELSE m

getActiveMonitoringJobs(m) == DOMAIN m.jobs

\* The monitor's state is replaced by m; a timer that is new gets its history.
SetMonitorState(m, call) ==
    /\ monitoringJobs' = m.jobs
    /\ monitor' = [monitor EXCEPT
           !.timers = m.timers,
           !.nextTimer = m.nextTimer,
           !.ran = [id \in 1..(m.nextTimer - 1) |->
                       IF id \in DOMAIN monitor.ran THEN monitor.ran[id]
                       ELSE [marked |-> 0, emailed |-> 0, notified |-> 0]],
           !.last = call]

\* src/src/utils/providers.ts: the chains that have a provider.
SupportedChains == {"ethereum", "polygon", "arbitrum", "base"}

\* src/src/services/blockchainService.ts: receipt and height are what the
\* provider's getTransactionReceipt and getBlockNumber do.
ErrUnsupportedChain == [code |-> "", message |-> <<"Unsupported", "chain">>]

getTransactionConfirmations(chain, receipt, height) ==
    IF chain \notin SupportedChains THEN Reject(ErrUnsupportedChain)
    ELSE IF ~receipt.ok THEN receipt
    ELSE IF ~receipt.value.found THEN Resolve(0)
    ELSE IF ~height.ok THEN height
    ELSE Resolve(height.value - receipt.value.blockNumber)

\* The interval callback's catch (proofGenerator.ts, 287-289): the error is
\* logged and the monitor is left as it is.
onPollErrorStops(m, orderId) == stopConfirmationMonitoring(m, orderId)

onPollError(m, orderId) == m

\* The try/catch around sendPaymentConfirmedEmail (268-277): the callback goes
\* on whether the email was sent or not.
continuesAfterEmailOnlyIfSent(sent) == sent

continuesAfterEmail(sent) == TRUE

-----------------------------------------------------------------------------
(* Webhook orchestrator: handleWebhook  (src/unnamed/part_003) *)

WebhookTypes == {"payment.completed", "payment.pending", "payment.confirmed", "payment.failed"}

\* Inputs explored: a type that updates the order to confirmed and starts a
\* monitor, one that does neither, and one the schema rejects.
InputTypes == {"payment.completed", "payment.failed", "payment.refunded"}
InputAmounts == {"1.5"}
InputAddresses == {NoAddress, AddrGood, AddrSlashed, AddrMalformed}
InputSignatures(payload) ==
    {NoSignature, GarbageSignature,
     Sign(AddrGood, CanonicalMessage(payload)),
     Sign(AddrSlashed, CanonicalMessage(payload)),
     Sign(AddrGood, CanonicalMessage([payload EXCEPT !.amount = "9.9"]))}

Response(code, status, error, message, proof, processedBy) ==
    [code |-> code, status |-> status, error |-> error, message |-> message,
     proof |-> proof, processed_by |-> processedBy]

\* res.status(..).json(..): the handler's locals are dead from here on.
Finish(rq, response) ==
    [rq EXCEPT !.pc = "done", !.res = Some(response), !.doneAt = now,
               !.type = "", !.amount = "", !.merchantProof = NoProof,
               !.transaction_hash = NoHash, !.confirmations = NoNumber,
               !.order = None, !.confirmedAt = NoNumber]

ReqFrame == UNCHANGED <<env, io, now, ticks, script, retryOut, evicted>>

\* The request has entered a stage of the pipeline (history).
Enter(rq, stage) == [rq EXCEPT !.stages = Append(@, stage)]

\* STEP 5 and the call of the receipt check.
AfterRegistry(rq) ==
    LET paymentVerification ==
            verifyPaymentOnChain(rq.payment_id, MerchantAddress, Customer, rq.amount,
                                 IsTrue(env.SKIP_PAYMENT_VERIFICATION)) IN
    IF ~paymentVerification.isValid
    THEN Finish(Enter(rq, "payment"),
                Response(400, "", "Invalid payment", paymentVerification.reason,
                         NoProof, None))
    ELSE [Enter(rq, "payment") EXCEPT !.pc = "receipt", !.passed = TRUE]

AfterSignatureSkipsRegistry(rq) == AfterRegistry(rq)

\* STEP 4 when there is no listener address, else the call of the registry check.
AfterSignature(rq) ==
    IF rq.listenerAddress # NoAddress THEN [Enter(rq, "registry") EXCEPT !.pc = "registry"]
    ELSE AfterRegistry(rq)

\* A request arrives: schema validation, STEP 2 (duplicate check), STEP 3
\* (signature; the verifier awaits nothing, so its verdict is fixed at the call).
handleWebhookStart(rq, payload, listenerSignature, listenerAddress) ==
    IF payload.type \notin WebhookTypes
    THEN Finish(Enter(rq, "validate"),
                Response(400, "", "Invalid payload", "", NoProof, None))
    ELSE LET data == [rq EXCEPT !.type = payload.type, !.payment_id = payload.payment_id,
                                !.amount = payload.amount,
                                !.transaction_hash = payload.transaction_hash,
                                !.listenerAddress = listenerAddress,
                                !.stages = <<"validate", "duplicate">>] IN
         IF isWebhookProcessed(processedWebhooks, payload.payment_id)
         THEN LET existing == getProcessingListener(processedWebhooks, payload.payment_id) IN
              Finish(data, Response(200, "already_processed", "",
                                    "This payment was already handled", NoProof,
                                    {e.listener : e \in existing}))
         ELSE IF Truthy(listenerSignature) /\ listenerAddress # NoAddress
         THEN IF ~verifyListenerSignature(payload, listenerSignature, listenerAddress)
              THEN Finish(Enter(data, "signature"),
                          Response(401, "", "Invalid signature",
                                   "Webhook signature verification failed",
                                   NoProof, None))
              ELSE AfterSignature([Enter(data, "signature") EXCEPT !.sigVerified = TRUE])
         ELSE AfterSignature(data)

\* The check a request fails, as its inputs have it: a signature is genuine when
\* it is the listener's own over the canonical message; a listener is authorized
\* when the registry answers with an active, unslashed record at or above both
\* thresholds, or does not answer while degraded mode is enabled.
GenuineSignature(payload, signature, listenerAddress) ==
    /\ signature.kind = "ecdsa"
    /\ signature.over = CanonicalMessage(payload)
    /\ toLowerCase(signature.by) = toLowerCase(listenerAddress)

PaymentFails(amount) ==
    ~(env.SKIP_PAYMENT_VERIFICATION = Some("true") /\ amount \in ParseableAmounts)

Unauthorized(outs) ==
    LET q == retryWithBackoff(outs, maxRetries) IN
    IF q.returned
    THEN ~(/\ q.outcome.value.active
           /\ ~q.outcome.value.slashed
           /\ q.outcome.value.stake >= minListenerStake
           /\ q.outcome.value.reputation >= minListenerReputation)
    ELSE env.ALLOW_DURING_RPC_FAILURE # Some("true")

FailedAtStart(payload, listenerSignature, listenerAddress) ==
    IF payload.type \notin WebhookTypes THEN "body"
    ELSE IF isWebhookProcessed(processedWebhooks, payload.payment_id) THEN ""
    ELSE IF /\ Truthy(listenerSignature)
            /\ listenerAddress # NoAddress
            /\ ~GenuineSignature(payload, listenerSignature, listenerAddress)
    THEN "signature"
    ELSE IF listenerAddress = NoAddress /\ PaymentFails(payload.amount) THEN "payment"
    ELSE ""

\* Requests for the paymentId answered with status success not longer ago than
\* the retention window, and requests for it answered 403.
AnsweredSuccess(paymentId) ==
    {q \in ReqIds : /\ req[q].pc = "done"
                     /\ req[q].payment_id = paymentId
                     /\ \E a \in req[q].res : a.status = "success"
                     /\ now - req[q].doneAt <= maxAge}
AnsweredForbidden(paymentId) ==
    {q \in ReqIds : /\ req[q].pc = "done"
                     /\ req[q].payment_id = paymentId
                     /\ \E a \in req[q].res : a.code = 403}

\* What had been answered for the paymentId when a request arrives.
AnsweredBefore(paymentId, listenerAddress) ==
    {"replay" : q \in {x \in AnsweredSuccess(paymentId) :
                          req[x].listenerAddress = listenerAddress}}
    \cup {"listed" : q \in {x \in AnsweredSuccess(paymentId) :
                              req[x].listenerAddress # NoAddress}}
    \cup {"forbidden" : q \in AnsweredForbidden(paymentId)}

\* The transaction hashes a body may carry for each paymentId: the payment's
\* own, or that of any payment.
OwnHash == [p \in PaymentIds |-> {TxOf(p)}]
AnyHash == [p \in PaymentIds |-> {TxOf(q) : q \in PaymentIds}]

\* Requests for different paymentIds that each carry the payment's own
\* transaction hash share no key of the tracker or the job registry and find
\* different rows of the order store: a behaviour of such requests explores
\* the requests for one paymentId.
CurrentIds ==
    LET seen == {req[q].payment_id : q \in ReqIds} \ {""} IN
    IF seen = {} THEN PaymentIds ELSE seen

\* The window the documentation gives for the payload timestamp; the handler
\* reads data.timestamp only to normalise it into a local it never uses
\* (part_003, 188-191).
FiveMinutes == 300000
OutsideWindow(timestamp, t) ==
    timestamp - t > FiveMinutes \/ t - timestamp > FiveMinutes

\* A request arrives whose body names a paymentId of `ids`, carries a payload
\* timestamp of `timestamps` and a transaction hash of hashes[paymentId].
ReceiveBody(r, ids, timestamps, hashes) ==
    /\ req[r].pc = "idle"
    /\ \A q \in ReqIds : q < r => req[q].pc # "idle"
    /\ \E next \in
          UNION {LET payload == PayloadWith(type, paymentId, amount, timestamp,
                                            transactionHash) IN
                 IF transactionHash \notin hashes[paymentId] THEN {} ELSE
                 {LET rq == [req[r] EXCEPT
                                !.stale = OutsideWindow(timestamp, now),
                                !.tracked = /\ type \in WebhookTypes
                                            /\ paymentId \in DOMAIN processedWebhooks,
                                !.after = IF type \in WebhookTypes
                                          THEN AnsweredBefore(paymentId, listenerAddress)
                                          ELSE {},
                                !.failed = FailedAtStart(payload, listenerSignature,
                                                         listenerAddress)] IN
                  handleWebhookStart(rq, payload, listenerSignature, listenerAddress) :
                     listenerSignature \in InputSignatures(payload)} :
                 type \in InputTypes, paymentId \in ids, amount \in InputAmounts,
                 listenerAddress \in InputAddresses, timestamp \in timestamps,
                 transactionHash \in UNION {hashes[p] : p \in ids}} :
          req' = [req EXCEPT ![r] = next]
    /\ UNCHANGED <<processedWebhooks, orders, monitoringJobs, monitor, markLog>>
    /\ ReqFrame

\* A request arrives from a listener that reports the payment's own transaction.
ReceiveFrom(r, timestamps) == ReceiveBody(r, CurrentIds, timestamps, OwnHash)

\* The listener stamps the payload with the time of sending.
Receive(r) == ReceiveFrom(r, {now})

\* What the successive registryContract.getListener calls can do for an address.
RegistryScripts(address) ==
    IF isAddress(address)
    THEN Scripts({Resolve(Registry(address)), Reject(ErrTimeout), Reject(ErrRevert)})
    ELSE Scripts({Reject(ErrBadAddress)})

\* STEP 4: the registry check has finished.
ResumeRegistered(r) ==
    /\ req[r].pc = "registry"
    /\ \E next \in
              {LET registrationCheck ==
                       verifyListenerRegistered(req[r].listenerAddress, outs,
                                                IsTrue(env.ALLOW_DURING_RPC_FAILURE))
                   answered == retryWithBackoff(outs, maxRetries)
                   rq == [req[r] EXCEPT
                             !.sawSlashed = answered.returned /\ answered.outcome.value.slashed,
                             !.failed = IF req[r].failed # "" THEN req[r].failed
                                        ELSE IF Unauthorized(outs) THEN "registry"
                                        ELSE IF PaymentFails(req[r].amount) THEN "payment"
                                        ELSE ""] IN
               IF ~registrationCheck.isValid
               THEN Finish(rq, Response(403, "", "Unauthorized listener",
                                        registrationCheck.reason, NoProof, None))
               ELSE AfterRegistry(rq) : outs \in RegistryScripts(req[r].listenerAddress)} :
          req' = [req EXCEPT ![r] = next]
    /\ UNCHANGED <<processedWebhooks, orders, monitoringJobs, monitor, markLog>>
    /\ ReqFrame

PipelineReceipts ==
    {Resolve(NullReceipt), Resolve(Receipt(0, 100)), Resolve(Receipt(1, 100)),
     Reject(ErrTimeout)}
PipelineHeights == {Resolve(101), Resolve(103)}

\* `if (!txVerification.isValid)` only logs a warning (178-184): the handler
\* goes on with the order step whatever the receipt check returned.
continuesAfterReceiptOnlyIfValid(txVerification) == txVerification.isValid

continuesAfterReceipt(txVerification) == TRUE

\* The receipt check has finished; its failure is only logged.
ResumeReceipt(r) ==
    /\ req[r].pc = "receipt"
    /\ \E txVerification \in
              {verifyTransactionReceipt([i \in 1..maxRetries |-> receipt], height) :
                  receipt \in PipelineReceipts, height \in PipelineHeights} :
          req' = [req EXCEPT ![r] =
                     IF continuesAfterReceipt(txVerification)
                     THEN [req[r] EXCEPT !.pc = "orderFind",
                                         !.confirmations = txVerification.confirmations]
                     ELSE Finish(req[r], Response(400, "", "Invalid transaction",
                                                  txVerification.reason, NoProof, None))]
    /\ UNCHANGED <<processedWebhooks, orders, monitoringJobs, monitor, markLog>>
    /\ ReqFrame

\* txVerification.confirmations || 1
ConfirmationsOr1(confirmations) ==
    IF confirmations = NoNumber \/ The(confirmations) = 0 THEN 1 ELSE The(confirmations)

OrderView(orderId) == [orderId |-> orderId, status |-> orders[orderId].status]

\* The call of prisma.webhookLog.create; the locals of STEP 6 (type, order,
\* txVerification) are read no more by anything the model keeps.
ToWebhookLog(rq) ==
    [rq EXCEPT !.pc = "log", !.type = "", !.confirmations = NoNumber, !.order = None,
               !.transaction_hash = NoHash, !.confirmedAt = NoNumber]

\* The collaborators the handler calls after the checks: the order store, the
\* email service, the socket server and the webhook log.
Collaborators == {"store", "email", "push", "log"}

\* The call of the collaborator `who` has failed for the request (history).
\* `noted` are the collaborators whose failures a specification keeps in the
\* history: those of the specifications whose properties read it.
CollaboratorFailed(rq, who) == [rq EXCEPT !.collab = @ \cup {who}]
Outcome(rq, ok, who, noted) ==
    IF ok \/ who \notin noted THEN rq ELSE CollaboratorFailed(rq, who)

\* Each call of a collaborator lies in a try block of its own, whose catch logs
\* the error: the order store (195-273), the email (230-239), the emits
\* (242-251, 335-353), the webhook log (276-289).
caughtInPlaceButTheLog(who) == who # "log"

caughtInPlace(who) == who \in Collaborators

\* What is thrown: an Error with its message, or a value that is no Error.
ThrownValues ==
    {[instanceofError |-> TRUE, message |-> "connect ETIMEDOUT 10.0.0.5:8545"],
     [instanceofError |-> FALSE, message |-> ""]}

\* The handler's catch block.
InternalServerError(error) ==
    Response(500, "", "Internal server error",
             IF error.instanceofError THEN error.message ELSE "Unknown error",
             NoProof, None)

\* An error that no inner catch takes reaches the handler's catch (385-398).
Escapes(ok, who) == ~ok /\ ~caughtInPlace(who)
Uncaught(rq, error) == Finish(rq, InternalServerError(error))

\* How a call of the email service, the socket server or the webhook log
\* settles: TRUE when it succeeds.
Settles == BOOLEAN

\* prisma.order.findFirst({where: {OR: [{orderId}, {transactionHash}]}}): the
\* rows of the store that match (196-203).
findFirstMatches(store, paymentId, transactionHash) ==
    {k \in DOMAIN store :
        k = paymentId \/ store[k].transactionHash = Some(transactionHash)}

\* STEP 6: prisma.order.findFirst has finished: thrown, no row, or one of the
\* rows that match (no orderBy is given); on a row the update is issued at
\* once, its data built with `new Date()` of this moment (210-222).
ResumeOrderFindOn(r, noted) ==
    /\ req[r].pc = "orderFind"
    /\ LET matches == findFirstMatches(orders, req[r].payment_id, req[r].transaction_hash)
           completed == req[r].type = "payment.completed" IN
       \E next \in
              {LET rq == Outcome(req[r], FALSE, "store", noted) IN         \* dbError
               IF Escapes(FALSE, "store") THEN Uncaught(rq, error)
               ELSE ToWebhookLog(rq) : error \in ThrownValues}
              \cup (IF matches = {} THEN {ToWebhookLog(req[r])} ELSE {})
              \cup {[req[r] EXCEPT !.pc = "orderUpdate",
                                   !.order = Some(OrderView(k)),
                                   !.confirmedAt = IF completed THEN Some(now)
                                                   ELSE NoNumber] : k \in matches} :
          req' = [req EXCEPT ![r] = next]
    /\ UNCHANGED <<processedWebhooks, orders, monitoringJobs, monitor, markLog>>
    /\ ReqFrame

ResumeOrderFind(r) == ResumeOrderFindOn(r, {})

\* prisma.order.update has finished (updated, or thrown): the row found is
\* written with the data built when the update was issued.
ResumeOrderUpdateOn(r, noted) ==
    /\ req[r].pc = "orderUpdate"
    /\ \/ /\ \E next \in
                 {LET rq == Outcome(req[r], FALSE, "store", noted) IN       \* dbError
                  IF Escapes(FALSE, "store") THEN Uncaught(rq, error)
                  ELSE ToWebhookLog(rq) : error \in ThrownValues} :
                req' = [req EXCEPT ![r] = next]
          /\ UNCHANGED orders
       \/ LET orderId == The(req[r].order).orderId
              completed == req[r].type = "payment.completed"
              status == IF completed THEN "PAYMENT_CONFIRMED" ELSE "PAYMENT_PENDING" IN
          /\ orderId \in DOMAIN orders
          /\ orders' = [orders EXCEPT ![orderId] =
                           [status |-> status,
                            transactionHash |-> Some(req[r].transaction_hash),
                            confirmations |-> ConfirmationsOr1(req[r].confirmations),
                            confirmedAt |-> IF completed THEN req[r].confirmedAt
                                            ELSE @.confirmedAt]]
          /\ req' = [req EXCEPT ![r].pc = "email", ![r].confirmations = NoNumber,
                                ![r].confirmedAt = NoNumber,
                                ![r].order = Some([orderId |-> orderId, status |-> status])]
    /\ UNCHANGED <<processedWebhooks, monitoringJobs, monitor, markLog>>
    /\ ReqFrame

ResumeOrderUpdate(r) == ResumeOrderUpdateOn(r, {})

\* getIO() (part_004, 80-85) throws while the socket server is not initialised.
getIOThrows(initialised) == ~initialised

\* sendPaymentReceivedEmail has finished (sent or failed: both are only logged);
\* then the payment-received emit and the start of confirmation monitoring,
\* which is skipped, the error logged, when getIO() throws (253-266).
ResumeEmailOn(r, noted) ==
    /\ req[r].pc = "email"
    /\ IF /\ req[r].type \in {"payment.pending", "payment.completed"}
          /\ ~getIOThrows(io)
       THEN SetMonitorState(
                startConfirmationMonitoring(MonitorState, The(req[r].order).orderId,
                                            req[r].transaction_hash, ChainId),
                monitor.last)
       ELSE UNCHANGED <<monitoringJobs, monitor>>
    /\ \E next \in
              {LET rq == Outcome(Outcome(req[r], sent, "email", noted),
                                 pushed, "push", noted) IN
               IF Escapes(sent, "email") \/ Escapes(pushed, "push")
               THEN Uncaught(rq, error)
               ELSE ToWebhookLog(rq) :
                  sent \in Settles, pushed \in Settles, error \in ThrownValues} :
          req' = [req EXCEPT ![r] = next]
    /\ UNCHANGED <<processedWebhooks, orders, markLog>>
    /\ ReqFrame

ResumeEmail(r) == ResumeEmailOn(r, {})

SuccessResponse(rq, merchantProof) ==
    Response(200, "success", "", "Payment processed successfully",
             {[payment_id |-> rq.payment_id, listener |-> rq.listenerAddress,
               merchant_signature |-> pr.signature, signed_message |-> pr.message,
               timestamp |-> pr.timestamp, method |-> pr.method] : pr \in merchantProof},
             None)

\* prisma.webhookLog.create has finished (written or failed: only logged); then
\* STEP 7 calls the proof generator when a listener address was supplied, and
\* otherwise the handler runs on to the response.
ResumeWebhookLogOn(r, noted) ==
    /\ req[r].pc = "log"
    /\ \E next \in
              {LET rq == Outcome(req[r], written, "log", noted) IN
               IF Escapes(written, "log") THEN Uncaught(rq, error)
               ELSE IF rq.listenerAddress # NoAddress
               THEN [rq EXCEPT !.pc = "proof",
                               !.proofCalls = @ + 1,
                               !.merchantProof =
                                   generateMerchantProof(
                                       [payment_id |-> rq.payment_id,
                                        listener_address |-> rq.listenerAddress,
                                        timestamp |-> now], now)]
               ELSE IF Escapes(pushed, "push")
               THEN Uncaught(Outcome(rq, pushed, "push", noted), error)
               ELSE Finish(Outcome(rq, pushed, "push", noted),
                           SuccessResponse(rq, NoProof)) :
                  written \in Settles, pushed \in Settles, error \in ThrownValues} :
          req' = [req EXCEPT ![r] = next]
    /\ UNCHANGED <<processedWebhooks, orders, monitoringJobs, monitor, markLog>>
    /\ ReqFrame

ResumeWebhookLog(r) == ResumeWebhookLogOn(r, {})

\* The proof generator has returned or thrown: mark as processed, emit, respond.
ResumeProofOn(r, noted) ==
    /\ req[r].pc = "proof"
    /\ Mark(req[r].payment_id, req[r].listenerAddress,
            IF req[r].merchantProof = NoProof THEN NoSignature
            ELSE The(req[r].merchantProof).signature)
    /\ \E next \in
              {LET rq == Outcome([req[r] EXCEPT !.marks = @ + 1], pushed, "push", noted) IN
               IF Escapes(pushed, "push") THEN Uncaught(rq, error)
               ELSE Finish(rq, SuccessResponse(req[r], req[r].merchantProof)) :
                  pushed \in Settles, error \in ThrownValues} :
          req' = [req EXCEPT ![r] = next]
    /\ UNCHANGED <<orders, monitoringJobs, monitor>>
    /\ ReqFrame

ResumeProof(r) == ResumeProofOn(r, {})

NoOrder == [status |-> "PENDING", transactionHash |-> None, confirmations |-> 0,
            confirmedAt |-> NoNumber]

\* The server of src/src/index.ts, which initialises the socket server before
\* it mounts the routes (22).
Init ==
    /\ InitCommon
    /\ io = TRUE
    /\ env \in Envs
    /\ \E ids \in {{}, PaymentIds} : orders = [o \in ids |-> NoOrder]
    /\ script = NoScript

Next ==
    \/ \E r \in ReqIds : Receive(r)
    \/ \E r \in ReqIds : ResumeRegistered(r)
    \/ \E r \in ReqIds : ResumeReceipt(r)
    \/ \E r \in ReqIds : ResumeOrderFind(r)
    \/ \E r \in ReqIds : ResumeOrderUpdate(r)
    \/ \E r \in ReqIds : ResumeEmail(r)
    \/ \E r \in ReqIds : ResumeWebhookLog(r)
    \/ \E r \in ReqIds : ResumeProof(r)
    \/ Cleanup
    \/ Tick

Spec == Init /\ [][Next]_vars

-----------------------------------------------------------------------------
(* SpecFault: the requests through the pipeline when an awaited call outside
   the handler's inner try blocks may reject  (src/unnamed/part_003, 385-398) *)

Throw(r) ==
    /\ req[r].pc \in {"registry", "receipt"}
    /\ \E error \in ThrownValues :
          req' = [req EXCEPT ![r] =
                     Finish([req[r] EXCEPT !.failed = "exception"],
                            InternalServerError(error))]
    /\ UNCHANGED <<processedWebhooks, orders, monitoringJobs, monitor, markLog>>
    /\ ReqFrame

FaultReqs == ReqIds

\* Degraded mode is left unset, its default: a registry query that fails
\* rejects the request.
InitFault == Init /\ env.ALLOW_DURING_RPC_FAILURE = None

NextFault ==
    \/ \E r \in FaultReqs : Receive(r)
    \/ \E r \in FaultReqs : ResumeRegistered(r)
    \/ \E r \in FaultReqs : ResumeReceipt(r)
    \/ \E r \in FaultReqs : ResumeOrderFind(r)
    \/ \E r \in FaultReqs : ResumeOrderUpdate(r)
    \/ \E r \in FaultReqs : ResumeEmail(r)
    \/ \E r \in FaultReqs : ResumeWebhookLog(r)
    \/ \E r \in FaultReqs : ResumeProof(r)
    \/ \E r \in FaultReqs : Throw(r)
    \/ Cleanup
    \/ Tick

SpecFault == InitFault /\ [][NextFault]_vars

-----------------------------------------------------------------------------
(* SpecCollab: one request through the pipeline, the failed calls of its
   collaborators kept in its history  (src/unnamed/part_003, 193-289 and
   333-353) *)

CollabReqs == {1}

NextCollab ==
    \/ \E r \in CollabReqs : Receive(r)
    \/ \E r \in CollabReqs : ResumeRegistered(r)
    \/ \E r \in CollabReqs : ResumeReceipt(r)
    \/ \E r \in CollabReqs : ResumeOrderFindOn(r, Collaborators)
    \/ \E r \in CollabReqs : ResumeOrderUpdateOn(r, Collaborators)
    \/ \E r \in CollabReqs : ResumeEmailOn(r, Collaborators)
    \/ \E r \in CollabReqs : ResumeWebhookLogOn(r, Collaborators)
    \/ \E r \in CollabReqs : ResumeProofOn(r, Collaborators)
    \/ Cleanup
    \/ Tick

SpecCollab == Init /\ [][NextCollab]_vars

-----------------------------------------------------------------------------
(* SpecOrders: the order store under the webhook and the public order
   handlers, for either entry point  (src/unnamed/part_003, 193-273;
   src/src/controllers/orderController.ts; src/api/index.ts) *)

\* The statuses a PATCH /api/orders/:orderId/status body is explored with;
\* the handler takes any value.
OrderStatuses == {"PENDING", "PAYMENT_CONFIRMED"}

\* prisma.order.create: orderId is the row's unique key, so that a second
\* create for it throws and the handler answers 500.
createOrder(store, orderId) ==
    IF orderId \in DOMAIN store THEN store ELSE (orderId :> NoOrder) @@ store

\* prisma.order.update({where: {orderId}, data: {status}}): throws when no row
\* has the key, and the handler answers 500.
updateOrderStatus(store, orderId, status) ==
    IF orderId \notin DOMAIN store THEN store
    ELSE [store EXCEPT ![orderId].status = status]

\* The same with status FULFILLED; fulfilledAt and metadata are columns the
\* model's rows do not keep.
fulfillOrder(store, orderId) ==
    IF orderId \notin DOMAIN store THEN store
    ELSE [store EXCEPT ![orderId].status = "FULFILLED"]

OrderFrame ==
    UNCHANGED <<env, io, now, ticks, processedWebhooks, monitoringJobs, req, markLog,
                evicted, script, retryOut, monitor>>

CreateOrder ==
    /\ \E orderId \in PaymentIds :
          /\ orderId \notin DOMAIN orders
          /\ orders' = createOrder(orders, orderId)
    /\ OrderFrame

UpdateOrderStatus ==
    /\ \E orderId \in DOMAIN orders, status \in OrderStatuses :
          /\ orders[orderId].status # status
          /\ orders' = updateOrderStatus(orders, orderId, status)
    /\ OrderFrame

FulfillOrder ==
    /\ \E orderId \in DOMAIN orders :
          /\ orders[orderId].status # "FULFILLED"
          /\ orders' = fulfillOrder(orders, orderId)
    /\ OrderFrame

OrderReqs == {1}

\* A row that an earlier webhook of type payment.pending has left in the store.
PendingOrder(transactionHash) ==
    [status |-> "PAYMENT_PENDING", transactionHash |-> Some(transactionHash),
     confirmations |-> 1, confirmedAt |-> NoNumber]

\* A request whose body carries any paymentId and any transaction hash.
ReceiveAny(r) == ReceiveBody(r, PaymentIds, {now}, AnyHash)

\* Either entry point: src/api/index.ts mounts the same routes and never
\* calls initializeWebSocket. The store is empty, or holds the row of an
\* earlier payment.
InitOrders ==
    /\ InitCommon
    /\ io \in BOOLEAN
    /\ env = [SKIP_PAYMENT_VERIFICATION |-> Some("true"), ALLOW_DURING_RPC_FAILURE |-> None,
              nodeEnv |-> "production"]
    /\ orders \in {EmptyMap, PidHex :> PendingOrder(TxOf(PidHex))}
    /\ script = NoScript

NextOrders ==
    \/ \E r \in OrderReqs : ReceiveAny(r)
    \/ \E r \in OrderReqs : ResumeRegistered(r)
    \/ \E r \in OrderReqs : ResumeReceipt(r)
    \/ \E r \in OrderReqs : ResumeOrderFind(r)
    \/ \E r \in OrderReqs : ResumeOrderUpdate(r)
    \/ \E r \in OrderReqs : ResumeEmail(r)
    \/ \E r \in OrderReqs : ResumeWebhookLog(r)
    \/ \E r \in OrderReqs : ResumeProof(r)
    \/ CreateOrder
    \/ UpdateOrderStatus
    \/ FulfillOrder
    \/ Cleanup
    \/ Tick

SpecOrders == InitOrders /\ [][NextOrders]_vars

-----------------------------------------------------------------------------
(* SpecClock: one request through the pipeline whose payload timestamp lies
   inside, on the edge of, or outside the five-minute window around the
   server's clock  (src/unnamed/part_003) *)

ClockNow == 4000000
ClockReqs == {1}

StampedTimes(t) ==
    {t - FiveMinutes - 1, t - FiveMinutes, t, t + FiveMinutes, t + FiveMinutes + 1}

ReceiveStamped(r) == ReceiveFrom(r, StampedTimes(now))

InitClock ==
    /\ now = ClockNow
    /\ io = TRUE
    /\ monitor = IdleMonitor
    /\ ticks = 0
    /\ processedWebhooks = EmptyMap
    /\ monitoringJobs = EmptyMap
    /\ req = [r \in ReqIds |-> IdleReq]
    /\ markLog = <<>>
    /\ evicted = {}
    /\ retryOut = None
    /\ env \in Envs
    /\ \E ids \in {{}, PaymentIds} : orders = [o \in ids |-> NoOrder]
    /\ script = NoScript

NextClock ==
    \/ \E r \in ClockReqs : ReceiveStamped(r)
    \/ \E r \in ClockReqs : ResumeRegistered(r)
    \/ \E r \in ClockReqs : ResumeReceipt(r)
    \/ \E r \in ClockReqs : ResumeOrderFind(r)
    \/ \E r \in ClockReqs : ResumeOrderUpdate(r)
    \/ \E r \in ClockReqs : ResumeEmail(r)
    \/ \E r \in ClockReqs : ResumeWebhookLog(r)
    \/ \E r \in ClockReqs : ResumeProof(r)
    \/ Cleanup
    \/ Tick

SpecClock == InitClock /\ [][NextClock]_vars

-----------------------------------------------------------------------------
(* SpecProof: the two issuance methods of the proof generator on timestamps
   around the expiry window and the clock skew *)

ProofNow == 4000000
ProofTimestamps ==
    {ProofNow - (proofExpirySeconds + 1) * 1000,
     ProofNow - proofExpirySeconds * 1000 - 1,
     ProofNow - proofExpirySeconds * 1000,
     ProofNow,
     ProofNow + clockSkew,
     ProofNow + clockSkew + 1}
ProofParams ==
    [payment_id : PaymentIds \cup {""},
     listener_address : {AddrGood, AddrMalformed, NoAddress},
     timestamp : ProofTimestamps,
     webhook_received : {TRUE},
     order_id : {PidText},
     amount : Amounts]

InitProof ==
    /\ now = ProofNow
    /\ io = TRUE
    /\ ticks = 0
    /\ processedWebhooks = EmptyMap
    /\ monitoringJobs = EmptyMap
    /\ monitor = IdleMonitor
    /\ req = [r \in ReqIds |-> IdleReq]
    /\ markLog = <<>>
    /\ evicted = {}
    /\ retryOut = None
    /\ env = [SKIP_PAYMENT_VERIFICATION |-> None, ALLOW_DURING_RPC_FAILURE |-> None,
              nodeEnv |-> "production"]
    /\ orders = EmptyMap
    /\ \E op \in {"generateMerchantProof", "generateEIP712Signature"}, params \in ProofParams :
          script = [op |-> op, params |-> params]

CallSimple ==
    /\ script.op = "generateMerchantProof"
    /\ retryOut = None
    /\ retryOut' = Some(generateMerchantProof(script.params, now))
    /\ LedgerFrame

CallTyped ==
    /\ script.op = "generateEIP712Signature"
    /\ retryOut = None
    /\ retryOut' = Some(generateEIP712Signature(script.params, now))
    /\ LedgerFrame

NextProof == CallSimple \/ CallTyped

SpecProof == InitProof /\ [][NextProof]_vars

-----------------------------------------------------------------------------
(* SpecVerifier: the signature verifier on signatures by the claimed listener
   and by others, over the canonical message and over other messages
   (src/src/services/listenerVerification.ts, 76-125) *)

AddrGoodLower == "0xaa01"

VerifierPayloads ==
    {Payload(type, paymentId, amount) :
        type \in WebhookTypes, paymentId \in PaymentIds, amount \in Amounts}
VerifierAddresses == {NoAddress, AddrGood, AddrGoodLower, AddrSlashed, AddrMalformed}

\* The signed fields in another order: what a sender that serializes otherwise signs.
ReorderedMessage(payload) ==
    <<payload.payment_id, payload.type, payload.merchant, payload.amount,
      payload.timestamp, payload.chain_id>>

VerifierSignatures(payload) ==
    {NoSignature, GarbageSignature,
     Sign(AddrGood, CanonicalMessage(payload)),
     Sign(AddrSlashed, CanonicalMessage(payload)),
     Sign(AddrGood, CanonicalMessage([payload EXCEPT !.amount = "9.9"])),
     Sign(AddrGood, ReorderedMessage(payload))}

InitVerifier ==
    /\ InitCommon
    /\ io = TRUE
    /\ env = LedgerEnv(None, None)
    /\ orders = EmptyMap
    /\ \E payload \in VerifierPayloads, listenerAddress \in VerifierAddresses :
          \E signature \in VerifierSignatures(payload) :
              script = [op |-> "verifyListenerSignature", payload |-> payload,
                        signature |-> signature, listenerAddress |-> listenerAddress]

CallVerify ==
    /\ script.op = "verifyListenerSignature"
    /\ retryOut = None
    /\ retryOut' = Some(verifyListenerSignature(script.payload, script.signature,
                                                script.listenerAddress))
    /\ LedgerFrame

NextVerifier == CallVerify

SpecVerifier == InitVerifier /\ [][NextVerifier]_vars

-----------------------------------------------------------------------------
(* SpecMonitor: the confirmation monitor under arbitrary callers, timer ticks
   and ledger heights  (src/src/services/proofGenerator.ts, 220-306) *)

OrderKeys == PaymentIds
MonitorChains == {"ethereum", ChainId}
MonitorReceipts == {Resolve(NullReceipt), Resolve(Receipt(1, 100)), Reject(ErrTimeout)}
MonitorHeights == {Resolve(100 + REQUIRED_CONFIRMATIONS - 1),
                   Resolve(100 + REQUIRED_CONFIRMATIONS)}

MonitorFrame ==
    UNCHANGED <<env, io, now, ticks, processedWebhooks, req, markLog, evicted, script, retryOut>>

MonitorStart ==
    /\ \E orderId \in OrderKeys, chain \in MonitorChains :
          /\ orderId \in DOMAIN monitoringJobs \/ monitor.nextTimer <= MaxTimers
          /\ SetMonitorState(
                 startConfirmationMonitoring(MonitorState, orderId, TxOf(orderId), chain),
                 [op |-> "start", orderId |-> orderId, chain |-> chain,
                  had |-> orderId \in DOMAIN monitoringJobs])
    /\ UNCHANGED orders
    /\ MonitorFrame

MonitorStop ==
    /\ \E orderId \in OrderKeys :
          SetMonitorState(
              stopConfirmationMonitoring(MonitorState, orderId),
              [op |-> "stop", orderId |-> orderId, chain |-> "",
               had |-> orderId \in DOMAIN monitoringJobs])
    /\ UNCHANGED orders
    /\ MonitorFrame

\* One invocation of the interval callback, at its first await.
Poll(id) ==
    [timer |-> id, orderId |-> monitor.timers[id].orderId,
     txHash |-> monitor.timers[id].txHash, chain |-> monitor.timers[id].chain,
     pc |-> "confirmations", confirmations |-> 0]

Spawn(polls, p) == polls (+) SetToBag({p})
Retire(polls, p) == polls (-) SetToBag({p})
Move(polls, p, q) == Spawn(Retire(polls, p), q)

\* The live timer id fires; the callback starts whether or not an earlier
\* invocation has finished.
Fire(id) ==
    /\ BagCardinality(monitor.polls) < MaxPolls
    /\ id \in DOMAIN monitor.timers
    /\ monitor' = [monitor EXCEPT !.polls = Spawn(@, Poll(id))]
    /\ UNCHANGED <<monitoringJobs, orders>>
    /\ MonitorFrame

TimerFires == \E id \in DOMAIN monitor.timers : Fire(id)

\* The invocations of timer id's callback that wait at the await `pc`.
PollsOf(id, pc) == {p \in BagToSet(monitor.polls) : p.timer = id /\ p.pc = pc}

\* An await of the invocation p has rejected: the callback's catch runs.
PollThrows(p) ==
    LET m == onPollError(MonitorState, p.orderId) IN
    /\ monitoringJobs' = m.jobs
    /\ monitor' = [monitor EXCEPT !.timers = m.timers,
                                  !.polls = Retire(@, p),
                                  !.last = [op |-> "error", orderId |-> p.orderId,
                                            chain |-> "",
                                            had |-> p.orderId \in DOMAIN monitoringJobs]]

\* What prisma.order.update does: it resolves, or rejects (store unreachable);
\* it rejects too when there is no such order.
StoreOutcomes == {"ok", "unreachable"}

\* getTransactionConfirmations has settled.
ConfirmationsSettle(id, receipts, heights) ==
    /\ \E p \in PollsOf(id, "confirmations") :
       \E confirmations \in {getTransactionConfirmations(p.chain, receipt, height) :
                                  receipt \in receipts, height \in heights} :
          IF confirmations.ok
          THEN /\ monitor' = [monitor EXCEPT !.polls =
                      Move(@, p, [p EXCEPT !.pc = "update",
                                           !.confirmations = confirmations.value])]
               /\ UNCHANGED monitoringJobs
          ELSE PollThrows(p)
    /\ UNCHANGED orders
    /\ MonitorFrame

\* prisma.order.update({ confirmations }) has settled; then the
\* confirmation-update emit and the threshold test.
UpdateSettles(id, stores) ==
    /\ \E p \in PollsOf(id, "update"), store \in stores :
          IF store # "ok" \/ p.orderId \notin DOMAIN orders
          THEN /\ PollThrows(p)
               /\ UNCHANGED orders
          ELSE /\ orders' = [orders EXCEPT ![p.orderId].confirmations = p.confirmations]
               /\ monitor' = [monitor EXCEPT !.polls =
                      IF p.confirmations >= REQUIRED_CONFIRMATIONS
                      THEN Move(@, p, [p EXCEPT !.pc = "confirm"])
                      ELSE Retire(@, p)]
               /\ UNCHANGED monitoringJobs
    /\ MonitorFrame

\* prisma.order.update({ status: 'PAYMENT_CONFIRMED', confirmedAt }) has
\* settled; the confirmation email is being sent.
ConfirmSettles(id, stores) ==
    /\ \E p \in PollsOf(id, "confirm"), store \in stores :
          IF store # "ok" \/ p.orderId \notin DOMAIN orders
          THEN /\ PollThrows(p)
               /\ UNCHANGED orders
          ELSE /\ orders' = [orders EXCEPT ![p.orderId].status = "PAYMENT_CONFIRMED",
                                           ![p.orderId].confirmedAt = Some(now)]
               /\ monitor' = [monitor EXCEPT
                      !.polls = Move(@, p, [p EXCEPT !.pc = "email"]),
                      !.ran[p.timer].marked = @ + 1]
               /\ UNCHANGED monitoringJobs
    /\ MonitorFrame

\* sendPaymentConfirmedEmail has settled (sent, or failed and logged); then the
\* payment-confirmed emit to the io the caller passed, and
\* stopConfirmationMonitoring(orderId).
EmailSettles(id) ==
    /\ \E p \in PollsOf(id, "email"), sent \in BOOLEAN :
          LET attempt == [op |-> "email", orderId |-> p.orderId, chain |-> "",
                          had |-> sent] IN
          IF continuesAfterEmail(sent)
          THEN LET m == stopConfirmationMonitoring(MonitorState, p.orderId) IN
               /\ monitoringJobs' = m.jobs
               /\ monitor' = [monitor EXCEPT
                      !.timers = m.timers,
                      !.polls = Retire(@, p),
                      !.ran[p.timer].emailed = @ + 1,
                      !.ran[p.timer].notified = @ + 1,
                      !.last = attempt]
          ELSE /\ UNCHANGED monitoringJobs
               /\ monitor' = [monitor EXCEPT
                      !.polls = Retire(@, p),
                      !.ran[p.timer].emailed = @ + 1,
                      !.last = attempt]
    /\ UNCHANGED orders
    /\ MonitorFrame

\* The timers created so far.
TimersCreated == DOMAIN monitor.ran

PollConfirmations ==
    \E id \in TimersCreated : ConfirmationsSettle(id, MonitorReceipts, MonitorHeights)
PollUpdate == \E id \in TimersCreated : UpdateSettles(id, StoreOutcomes)
PollConfirm == \E id \in TimersCreated : ConfirmSettles(id, StoreOutcomes)
PollEmail == \E id \in TimersCreated : EmailSettles(id)

InitMonitor ==
    /\ InitCommon
    /\ io = TRUE
    /\ env = [SKIP_PAYMENT_VERIFICATION |-> None, ALLOW_DURING_RPC_FAILURE |-> None,
              nodeEnv |-> "production"]
    /\ orders = [o \in {PidHex} |-> NoOrder]
    /\ script = NoScript

NextMonitor ==
    \/ MonitorStart
    \/ MonitorStop
    \/ TimerFires
    \/ PollConfirmations
    \/ PollUpdate
    \/ PollConfirm
    \/ PollEmail

SpecMonitor == InitMonitor /\ [][NextMonitor]_vars

-----------------------------------------------------------------------------
(* SpecLive: the confirmation monitor when the ledger and the order store
   answer every call and the transaction has the required confirmations; every
   live timer keeps firing and every await settles *)

LiveReceipts == {Resolve(Receipt(1, 100))}
LiveHeights == {Resolve(100 + REQUIRED_CONFIRMATIONS)}
LiveStores == {"ok"}

TimerIds == 1..MaxTimers

PollStepLive(id) ==
    \/ ConfirmationsSettle(id, LiveReceipts, LiveHeights)
    \/ UpdateSettles(id, LiveStores)
    \/ ConfirmSettles(id, LiveStores)
    \/ EmailSettles(id)

NextLive ==
    \/ MonitorStart
    \/ TimerFires
    \/ \E id \in TimerIds : PollStepLive(id)

\* setInterval fires every live timer again and again (every 30 seconds,
\* whatever else is in flight), and a settled promise resumes its callback.
FairTimers == \A id \in TimerIds : SF_vars(Fire(id)) /\ WF_vars(PollStepLive(id))

SpecLive == InitMonitor /\ [][NextLive]_vars /\ FairTimers

-----------------------------------------------------------------------------
(* Claims about the webhook pipeline (Spec) *)

Done(r) == req[r].pc = "done"
Answer(r) == The(req[r].res)
Succeeded(r) == Done(r) /\ Answer(r).status = "success"

\* C1: for any interleaving of concurrent requests that carry the same
\* paymentId, at most one request is answered with status success and a non-null
\* proof, and markProcessed is executed at most once for that paymentId (no
\* eviction in between).
C1_SingleProcessor ==
    \A p \in PaymentIds :
        p \notin evicted =>
            /\ Cardinality({r \in ReqIds : /\ Succeeded(r)
                                            /\ req[r].payment_id = p
                                            /\ Answer(r).proof # NoProof}) <= 1
            /\ Len(MarksOf(p)) <= 1

\* C2: a proof naming listener address L is issued only to a request whose
\* x-webhook-signature was verified to recover to L, unless the deployment is
\* configured as non-production.
C2_ProofOnlyForVerifiedSigner ==
    \A r \in ReqIds :
        (Done(r) /\ Answer(r).proof # NoProof) =>
            \/ req[r].sigVerified /\ The(Answer(r).proof).listener = req[r].listenerAddress
            \/ env.nodeEnv # "production"

\* C3 as stated: a not-yet-processed claim with a listener address that passes
\* the signature, registry and payment checks is answered with status success
\* and a non-null proof, and afterwards isProcessed(paymentId) is true.
C3_AcceptedGetsProof ==
    \A r \in ReqIds :
        (Done(r) /\ req[r].passed /\ req[r].listenerAddress # NoAddress) =>
            /\ Answer(r).status = "success"
            /\ Answer(r).proof # NoProof
            /\ now - req[r].doneAt <= maxAge =>
                   isWebhookProcessed(processedWebhooks, req[r].payment_id)

\* C3 amended: such a claim is answered with status success, it is marked once,
\* and isProcessed(paymentId) is true from the response until the retention
\* window has passed; the proof is non-null, naming the paymentId and the
\* listener, exactly when the paymentId is a 32-byte hex string and the listener
\* address is well-formed, and null otherwise.
C3_AcceptedIsMarked ==
    \A r \in ReqIds :
        (Done(r) /\ req[r].passed /\ req[r].listenerAddress # NoAddress) =>
            /\ Answer(r).status = "success"
            /\ Answer(r).code = 200
            /\ req[r].marks = 1
            /\ now - req[r].doneAt <= maxAge =>
                   isWebhookProcessed(processedWebhooks, req[r].payment_id)
            /\ Answer(r).proof # NoProof <=>
                   (req[r].payment_id \in Bytes32Ids /\ isAddress(req[r].listenerAddress))
            /\ \A pr \in Answer(r).proof :
                   /\ pr.payment_id = req[r].payment_id
                   /\ pr.listener = req[r].listenerAddress
                   /\ pr.merchant_signature =
                          Sign(MerchantAddress, <<req[r].payment_id, req[r].listenerAddress>>)

\* A signed claim of a registered listener answered with a proof, and one for a
\* paymentId that is no 32-byte hex string answered without.
C3_Witness ==
    \E r \in ReqIds :
        /\ Done(r) /\ req[r].passed /\ req[r].sigVerified
        /\ req[r].listenerAddress = AddrGood
        /\ Answer(r).proof # NoProof
        /\ isWebhookProcessed(processedWebhooks, req[r].payment_id)

\* C4 as stated: after a claim has been answered with status success, every
\* later identical claim (same paymentId and listener header, within the
\* retention window) is answered already_processed with proof = null, and the
\* proof generator is not invoked for it.
C4_ReplayRejected ==
    \A r \in ReqIds :
        (Done(r) /\ "replay" \in req[r].after) =>
            /\ Answer(r).status = "already_processed"
            /\ Answer(r).proof = NoProof
            /\ req[r].proofCalls = 0

\* C4 amended: after a claim that carries a listener address has been answered
\* with status success, every later claim for the same paymentId within the
\* retention window is answered already_processed with proof = null, naming the
\* listener recorded, and neither the proof generator nor markProcessed is
\* invoked for it.
C4_ListedReplayRejected ==
    \A r \in ReqIds :
        (Done(r) /\ "listed" \in req[r].after) =>
            /\ Answer(r).status = "already_processed"
            /\ Answer(r).code = 200
            /\ Answer(r).proof = NoProof
            /\ Answer(r).processed_by # None
            /\ req[r].proofCalls = 0
            /\ req[r].marks = 0

\* A replay answered already_processed when the first answer is exactly the
\* retention window old.
C4_Witness ==
    \E r, q \in ReqIds :
        /\ Succeeded(q) /\ req[q].listenerAddress = AddrGood
        /\ Done(r) /\ req[r].after = {"replay", "listed"}
        /\ req[r].doneAt = req[q].doneAt + maxAge
        /\ Answer(r).status = "already_processed"
        /\ Answer(r).processed_by = {AddrGood}

\* C5: a claim whose listener the registry reports as slashed is answered 403,
\* receives no proof and is not marked in the duplicate tracker (the proof
\* generator and markProcessed are not invoked for it), so a later claim for the
\* same paymentId is not answered as a duplicate on its account.
C5_SlashedRejected ==
    \A r \in ReqIds :
        /\ (Done(r) /\ req[r].sawSlashed) =>
               /\ Answer(r).code = 403
               /\ Answer(r).proof = NoProof
               /\ req[r].proofCalls = 0
               /\ req[r].marks = 0
        /\ (Done(r) /\ req[r].after = {"forbidden"}) =>
               Answer(r).status # "already_processed"

\* A slashed listener answered 403, then the same paymentId accepted from a
\* registered listener with a proof.
C5_Witness ==
    \E r, q \in ReqIds :
        /\ Done(q) /\ req[q].sawSlashed /\ Answer(q).code = 403
        /\ req[q].listenerAddress = AddrSlashed
        /\ Succeeded(r) /\ "forbidden" \in req[r].after
        /\ req[r].payment_id = req[q].payment_id
        /\ req[r].listenerAddress = AddrGood
        /\ Answer(r).proof # NoProof

\* A request that fails a check touches neither the tracker nor the monitor nor
\* the order store: every step of it leaves them as they are.
RejectedStepsChangeNothing ==
    \A r \in ReqIds :
        (req'[r] # req[r] /\ (req'[r].failed # "" \/ req'[r].pc = "registry")) =>
            /\ req[r].pc \in {"idle", "registry"}
            /\ UNCHANGED <<processedWebhooks, monitoringJobs, monitor, orders, markLog>>

RejectedAsStated ==
    \A r \in ReqIds :
        Done(r) =>
            /\ req[r].failed = "body" => Answer(r).code = 400
            /\ req[r].failed = "signature" => Answer(r).code = 401
            /\ req[r].failed = "registry" => Answer(r).code = 403
            /\ req[r].failed = "payment" => Answer(r).code = 400
            /\ Answer(r).code \in {400, 401, 403} <=> req[r].failed # ""
            /\ req[r].failed # "" =>
                   /\ Answer(r).proof = NoProof
                   /\ Answer(r).status = ""
                   /\ req[r].proofCalls = 0
                   /\ req[r].marks = 0

\* C19: a structurally invalid body yields 400, an invalid listener signature
\* 401, a failed registry check 403 and a failed payment verification 400, for
\* the first check of the pipeline that a request fails; the response carries no
\* proof, and the duplicate tracker, the monitoring-job registry and the order
\* store are left unchanged by every step of the request.
C19_RejectionsLeaveNoTrace ==
    [] RejectedAsStated /\ [][RejectedStepsChangeNothing]_vars

\* One request turned away for its signature, and one that passed the registry
\* check turned away for its payment.
C19_Witness ==
    \E r, q \in ReqIds :
        /\ Done(r) /\ req[r].failed = "signature" /\ Answer(r).code = 401
        /\ Done(q) /\ req[q].failed = "payment" /\ Answer(q).code = 400
        /\ req[q].listenerAddress = AddrGood
        /\ processedWebhooks = EmptyMap /\ monitoringJobs = EmptyMap

\* C20: an exception that reaches the handler's catch is answered with status
\* 500 and a generic body that carries nothing of the exception's message.
C20_GenericFailureBody ==
    \A r \in ReqIds :
        (Done(r) /\ req[r].failed = "exception") =>
            /\ Answer(r).code = 500
            /\ Answer(r).error = "Internal server error"
            /\ Answer(r).message \notin {e.message : e \in {x \in ThrownValues : x.instanceofError}}

\* The stages of the pipeline that judge a claim, in the order of the spec.
StageOrder == <<"validate", "duplicate", "signature", "registry", "payment">>
StageIndex(stage) == CHOOSE i \in DOMAIN StageOrder : StageOrder[i] = stage
Entered(r, stage) == \E i \in DOMAIN req[r].stages : req[r].stages[i] = stage
LastStage(r) == req[r].stages[Len(req[r].stages)]

\* C24: in every request the stages entered are structural validation,
\* duplicate check, signature check, registry check, payment verification in
\* that order, and a failing stage is the last one entered: no registry or
\* payment query for a request whose signature check failed, no payment query
\* for one whose registry check failed, and a request with a listener address
\* reaches the payment verification only through the registry check.
C24_StagesInOrder ==
    \A r \in ReqIds :
        LET st == req[r].stages IN
        /\ \A i, j \in DOMAIN st : i < j => StageIndex(st[i]) < StageIndex(st[j])
        /\ req[r].pc # "idle" => st[1] = "validate"
        /\ Len(st) >= 2 => st[2] = "duplicate"
        /\ req[r].failed = "body" => st = <<"validate">>
        /\ req[r].failed = "signature" => st = <<"validate", "duplicate", "signature">>
        /\ req[r].failed = "registry" =>
               /\ LastStage(r) = "registry"
               /\ ~Entered(r, "payment")
        /\ req[r].failed = "payment" => LastStage(r) = "payment"
        /\ req[r].sigVerified => Entered(r, "signature")
        /\ (Entered(r, "payment") /\ req[r].listenerAddress # NoAddress) =>
               Entered(r, "registry")
        /\ (Done(r) /\ Answer(r).code = 401) => LastStage(r) = "signature"
        /\ (Done(r) /\ Answer(r).code = 403) => LastStage(r) = "registry"
        /\ (Done(r) /\ Answer(r).status = "already_processed") => LastStage(r) = "duplicate"
        /\ req[r].passed => LastStage(r) = "payment"

\* One request stopped at the signature check, another, its signature verified,
\* stopped at the registry check.
C24_Witness ==
    \E r, q \in ReqIds :
        /\ Done(r) /\ req[r].failed = "signature"
        /\ req[r].stages = <<"validate", "duplicate", "signature">>
        /\ Done(q) /\ req[q].failed = "registry" /\ req[q].sigVerified
        /\ req[q].stages = <<"validate", "duplicate", "signature", "registry">>

\* A claim for a paymentId the tracker holds is answered in the step it arrives
\* in, naming the listener recorded, and that step writes nothing.
DuplicateStepChangesNothing ==
    \A r \in ReqIds :
        (req[r].pc = "idle" /\ req'[r].tracked) =>
            /\ req'[r].pc = "done"
            /\ \E a \in req'[r].res :
                   /\ a.status = "already_processed"
                   /\ a.processed_by = {processedWebhooks[req'[r].payment_id].listener}
            /\ UNCHANGED <<processedWebhooks, monitoringJobs, monitor, orders, markLog>>

DuplicateAnsweredAtOnce ==
    \A r \in ReqIds :
        /\ req[r].tracked => Done(r)
        /\ (Done(r) /\ Answer(r).status = "already_processed") => req[r].tracked
        /\ (Done(r) /\ req[r].tracked) =>
               /\ Answer(r).status = "already_processed"
               /\ Answer(r).code = 200
               /\ Answer(r).proof = NoProof
               /\ req[r].stages = <<"validate", "duplicate">>
               /\ req[r].proofCalls = 0
               /\ req[r].marks = 0

\* C26: answering a duplicate claim changes nothing: the tracker entry, the
\* monitoring-job registry and the order store are the same after the
\* already_processed response as before it, and the request issues no ledger
\* query, email or notification: it is answered before any of these calls, in
\* the step in which it arrives.
C26_DuplicateAnswerIsPure ==
    [] DuplicateAnsweredAtOnce /\ [][DuplicateStepChangesNothing]_vars

\* A duplicate answered while the order is confirmed and its monitoring job
\* runs.
C26_Witness ==
    \E r \in ReqIds :
        /\ Done(r) /\ req[r].tracked
        /\ Answer(r).status = "already_processed"
        /\ Answer(r).processed_by = {AddrGood}
        /\ req[r].payment_id \in DOMAIN monitoringJobs
        /\ req[r].payment_id \in DOMAIN orders
        /\ orders[req[r].payment_id].status = "PAYMENT_CONFIRMED"

\* A step that writes the tracker's entry for a paymentId is the step of a
\* request for it whose call of the proof generator has returned or thrown.
MarkFollowsProof ==
    (\/ markLog' # markLog
     \/ \E p \in DOMAIN processedWebhooks' :
            p \notin DOMAIN processedWebhooks \/ processedWebhooks'[p] # processedWebhooks[p]) =>
        \E r \in ReqIds :
            /\ req[r].pc = "proof" /\ req[r].proofCalls = 1
            /\ req'[r].pc = "done" /\ req'[r].marks = 1
            /\ Len(markLog') = Len(markLog) + 1
            /\ markLog'[Len(markLog')].paymentId = req[r].payment_id
            /\ \A p \in DOMAIN processedWebhooks' :
                   p # req[r].payment_id =>
                       (p \in DOMAIN processedWebhooks /\ processedWebhooks'[p] = processedWebhooks[p])

UnmarkedUntilProof ==
    /\ \A r \in ReqIds :
           /\ req[r].marks > 0 => (Succeeded(r) /\ req[r].proofCalls = 1 /\ req[r].marks = 1)
           /\ (Done(r) /\ req[r].failed # "") => req[r].marks = 0
           /\ (Done(r) /\ Answer(r).status = "already_processed") =>
                  \E q \in ReqIds \ {r} :
                      /\ Succeeded(q) /\ req[q].marks = 1
                      /\ req[q].payment_id = req[r].payment_id
    /\ \A p \in PaymentIds :
           /\ Len(MarksOf(p)) = Cardinality({r \in ReqIds : req[r].marks = 1
                                                             /\ req[r].payment_id = p})
           /\ p \in DOMAIN processedWebhooks => Len(MarksOf(p)) >= 1

\* C25: markProcessed(paymentId) is called only after the proof-generation step
\* of the request has finished; a request that fails a check or crashes at an
\* earlier stage leaves the paymentId unmarked, and a claim is answered
\* already_processed only if another request for its paymentId was accepted and
\* marked.
C25_MarkOnlyAfterProof ==
    [] UnmarkedUntilProof /\ [][MarkFollowsProof]_vars

\* A request crashed after its registry check, and a claim for the same
\* paymentId was then accepted and marked.
C25_Witness ==
    \E r, q \in ReqIds :
        /\ Done(q) /\ req[q].failed = "exception" /\ Answer(q).code = 500
        /\ Entered(q, "payment")
        /\ Succeeded(r) /\ req[r].marks = 1 /\ req[r].payment_id = req[q].payment_id
        /\ req[r].doneAt > req[q].doneAt
        /\ Len(MarksOf(req[r].payment_id)) = 1

-----------------------------------------------------------------------------
(* Claims about the duplicate tracker (SpecTracker) *)

\* C6: for every paymentId P, isProcessed(P) is false and getOriginal(P) returns
\* nothing while P was never marked; after a single markProcessed(P), and until
\* the entry is evicted, isProcessed(P) is true and getOriginal(P) returns the
\* entry recorded by that mark.
C6_SingleMarkObserved ==
    \A p \in PaymentIds :
        LET ms == MarksOf(p) IN
        /\ Len(ms) = 0 =>
               /\ ~isWebhookProcessed(processedWebhooks, p)
               /\ getProcessingListener(processedWebhooks, p) = None
        /\ (Len(ms) = 1 /\ p \notin evicted) =>
               /\ isWebhookProcessed(processedWebhooks, p)
               /\ getProcessingListener(processedWebhooks, p) = Some(EntryOf(ms[1]))

\* A paymentId marked once, still tracked after the clock has moved on, beside
\* one that was never marked.
C6_Witness ==
    /\ Len(MarksOf(PidHex)) = 1
    /\ PidHex \notin evicted
    /\ now >= MarksOf(PidHex)[1].timestamp + maxAge
    /\ Len(MarksOf(PidText)) = 0

\* C7: the first markProcessed for a paymentId wins: after any sequence of
\* markProcessed calls for it, with no eviction in between, the stored listener,
\* signature and firstSeenAt are those of the first call.
C7_FirstMarkWins ==
    \A p \in PaymentIds :
        (Len(MarksOf(p)) >= 1 /\ p \notin evicted) =>
            getProcessingListener(processedWebhooks, p) = Some(EntryOf(MarksOf(p)[1]))

-----------------------------------------------------------------------------
(* Claims about the retrying ledger call (SpecLedger) *)

\* The failures the retry policy calls transient: timeouts and network failures.
TransientErrors == {ErrTimeout, ErrNetwork, ErrMsgNetwork}
FailsTransient(o) == ~o.ok /\ o.error \in TransientErrors
FailsOtherwise(o) == ~o.ok /\ o.error \notin TransientErrors

\* C8: the retrying call returns the operation's result when it fails twice with
\* a transient error and then succeeds; when it fails three times with a transient
\* error it throws the last error after exactly three invocations; when it fails
\* with a non-transient error it throws that error after one invocation, unslept.
C8_RetryPolicy ==
    \A r \in retryOut :
        script.op = "retryWithBackoff" =>
            LET o == script.outs IN
            /\ (FailsTransient(o[1]) /\ FailsTransient(o[2]) /\ o[3].ok) =>
                   r.returned /\ r.outcome = o[3] /\ r.calls = 3
            /\ (FailsTransient(o[1]) /\ FailsTransient(o[2]) /\ FailsTransient(o[3])) =>
                   ~r.returned /\ r.outcome = o[3] /\ r.calls = 3
            /\ FailsOtherwise(o[1]) =>
                   ~r.returned /\ r.outcome = o[1] /\ r.calls = 1 /\ r.slept = <<>>

\* A call that failed twice with different transient errors and then returned.
C8_Witness ==
    \E r \in retryOut :
        /\ script.op = "retryWithBackoff"
        /\ script.outs[1] = Reject(ErrTimeout)
        /\ script.outs[2] = Reject(ErrMsgNetwork)
        /\ script.outs[3].ok
        /\ r.returned

\* C9 as stated: the delay slept before attempt k (k = 2, 3) is
\* min(1000 ms * 2^(k-1), 5000 ms): 2000 ms before the second attempt and
\* 4000 ms before the third.
C9_DelayAsStated ==
    \A r \in retryOut :
        script.op = "retryWithBackoff" =>
            \A k \in 2..r.calls : r.slept[k - 1] = Min(1000 * Pow2(k - 1), 5000)

\* C9 amended: the delay slept before attempt k (k = 2, 3) is
\* min(1000 ms * 2^(k-2), 5000 ms): 1000 ms before the second attempt and
\* 2000 ms before the third; no delay precedes the first attempt.
C9_DelayBeforeAttempt ==
    \A r \in retryOut :
        script.op = "retryWithBackoff" =>
            /\ Len(r.slept) = r.calls - 1
            /\ \A k \in 2..r.calls : r.slept[k - 1] = Min(1000 * Pow2(k - 2), 5000)
            /\ r.calls >= 2 => r.slept[1] = 1000
            /\ r.calls >= 3 => r.slept[2] = 2000

\* A call that made all three attempts, so that it slept twice.
C9_Witness ==
    \E r \in retryOut :
        script.op = "retryWithBackoff" /\ r.calls = 3 /\ Len(r.slept) = 2

\* C10: a transient ledger failure during receipt verification is retried up to
\* the 3-attempt budget, as for the registry query: a ledger call that would
\* succeed on the second attempt makes the receipt check succeed.
C10_ReceiptCheckRetries ==
    \A r \in retryOut :
        ( /\ script.op = "verifyTransactionReceipt"
          /\ FailsTransient(script.outs[1])
          /\ script.outs[2] = Resolve(Receipt(1, 100))
          /\ script.height = Resolve(103) ) => r.isValid

-----------------------------------------------------------------------------
(* Claims about the registry check and the payment verification (SpecLedger) *)

Registered == script.op = "verifyListenerRegistered" /\ retryOut # None
Queried == retryWithBackoff(script.outs, maxRetries)

\* C11: on a successful query the registry check rejects in the fixed order
\* not active, slashed, stake below the minimum, reputation below the minimum,
\* reporting the reason of the first condition that holds, and returns
\* isValid = true only if none of the four holds.
C11_RejectionOrder ==
    (Registered /\ Queried.returned) =>
        LET t == Queried.outcome.value
            out == The(retryOut)
            lowStake == t.stake < minListenerStake
            lowReputation == t.reputation < minListenerReputation IN
        /\ out.reason = "Listener is not active" <=> ~t.active
        /\ out.reason = "Listener has been slashed (banned)" <=> (t.active /\ t.slashed)
        /\ out.reason = "Listener stake too low" <=> (t.active /\ ~t.slashed /\ lowStake)
        /\ out.reason = "Listener reputation too low" <=>
               (t.active /\ ~t.slashed /\ ~lowStake /\ lowReputation)
        /\ out.isValid <=> (t.active /\ ~t.slashed /\ ~lowStake /\ ~lowReputation)
        /\ out.isValid => out.listenerInfo = [address |-> script.address, degraded |-> FALSE]

\* A slashed listener with too little stake and reputation, read on the third
\* attempt, is rejected as slashed.
C11_Witness ==
    /\ Registered /\ Queried.returned /\ Queried.calls = maxRetries
    /\ Queried.outcome.value = ListenerTuple(TRUE, TRUE, minListenerStake - 1, 0)
    /\ The(retryOut).reason = "Listener has been slashed (banned)"

\* C12: when the registry query fails (the retry budget exhausted, or an error
\* that is not retried), the check returns isValid = false unless
\* ALLOW_DURING_RPC_FAILURE is the string 'true'; then it returns isValid = true
\* with degraded = true; with the toggle unset it fails closed.
C12_DegradedOnlyWhenEnabled ==
    (Registered /\ ~Queried.returned) =>
        LET out == The(retryOut) IN
        /\ out.isValid <=> env.ALLOW_DURING_RPC_FAILURE = Some("true")
        /\ out.isValid => out.listenerInfo = [address |-> script.address, degraded |-> TRUE]
        /\ env.ALLOW_DURING_RPC_FAILURE = None => ~out.isValid

\* Three timeouts with degraded mode enabled: valid and flagged degraded.
C12_Witness ==
    /\ Registered /\ ~Queried.returned /\ Queried.calls = maxRetries
    /\ env.ALLOW_DURING_RPC_FAILURE = Some("true")
    /\ The(retryOut).isValid /\ The(retryOut).listenerInfo.degraded

\* C13: with SKIP_PAYMENT_VERIFICATION unset, the payment verification returns
\* isValid = true if and only if the ledger holds a record for the claimed
\* paymentId that matches the claim (merchant and customer).
C13_ValidIffRecorded ==
    (script.op = "verifyPaymentOnChain" /\ retryOut # None
        /\ env.SKIP_PAYMENT_VERIFICATION = None) =>
        (The(retryOut).isValid <=>
            [paymentId |-> script.paymentId, merchant |-> MerchantAddress,
             customer |-> Customer] \in PaymentDatabase)

-----------------------------------------------------------------------------
(* Claims about the confirmation monitor (SpecMonitor) *)

\* C14: after any sequence of starts, stops and polls there is one live timer
\* for every orderKey of the active-job set and no other live timer; starting a
\* key that already has a job creates no timer and leaves the job, with the
\* transaction hash and chain its timer closes over, unchanged.
C14_OneJobPerKey ==
    /\ \A k \in DOMAIN monitoringJobs :
           /\ monitoringJobs[k] \in DOMAIN monitor.timers
           /\ monitor.timers[monitoringJobs[k]].orderId = k
    /\ \A id \in DOMAIN monitor.timers :
           /\ monitor.timers[id].orderId \in DOMAIN monitoringJobs
           /\ monitoringJobs[monitor.timers[id].orderId] = id
    /\ \A k \in DOMAIN monitoringJobs, chain \in MonitorChains :
           startConfirmationMonitoring(MonitorState, k, TxOf(k), chain) = MonitorState

\* A second start for a key, naming another chain, has left the job of the
\* first start in place.
C14_Witness ==
    /\ monitor.last.op = "start" /\ monitor.last.had
    /\ monitor.last.orderId \in DOMAIN monitoringJobs
    /\ monitor.timers[monitoringJobs[monitor.last.orderId]].chain # monitor.last.chain
    /\ Cardinality(DOMAIN monitor.timers) = 1

\* C15: for every monitoring job each step of the completion sequence (mark the
\* order confirmed, confirmation email attempt, payment-confirmed notification)
\* is executed at most once, also when a timer tick fires while an earlier poll
\* of the job is still awaiting the ledger or the order store.
C15_CompletesOnce ==
    \A id \in DOMAIN monitor.ran :
        /\ monitor.ran[id].marked <= 1
        /\ monitor.ran[id].emailed <= 1
        /\ monitor.ran[id].notified <= 1

\* C16: stopConfirmationMonitoring is idempotent: for a key without a job it
\* changes nothing; for a key with a job it removes the key from the active-job
\* set and clears its timer; stopping twice leaves the state of stopping once.
C16_StopIdempotent ==
    /\ \A k \in OrderKeys :
           LET once == stopConfirmationMonitoring(MonitorState, k)
               twice == stopConfirmationMonitoring(once, k) IN
           /\ twice = once
           /\ k \notin getActiveMonitoringJobs(once)
           /\ k \notin DOMAIN monitoringJobs => once = MonitorState
           /\ k \in DOMAIN monitoringJobs =>
                  /\ monitoringJobs[k] \notin DOMAIN once.timers
                  /\ \A j \in (DOMAIN monitoringJobs) \ {k} :
                         /\ j \in DOMAIN once.jobs
                         /\ once.jobs[j] = monitoringJobs[j]
                         /\ once.jobs[j] \in DOMAIN once.timers
    /\ \A id \in DOMAIN monitor.timers :
           monitor.timers[id].orderId \in DOMAIN monitoringJobs

\* A stop has removed one of two jobs and cleared its timer.
C16_Witness ==
    /\ monitor.last.op = "stop" /\ monitor.last.had
    /\ monitor.last.orderId \notin DOMAIN monitoringJobs
    /\ Cardinality(DOMAIN monitoringJobs) = 1
    /\ Cardinality(DOMAIN monitor.timers) = 1
    /\ monitor.nextTimer = 3

-----------------------------------------------------------------------------
(* Claims about the proof generator (SpecProof) *)

Issued(op) == script.op = op /\ retryOut # None
Signed == The(retryOut) # NoProof
Age == now - script.params.timestamp
Stale == Age > proofExpirySeconds * 1000
Future == script.params.timestamp > now + 60000

\* C17 as stated: the simple method fails for a malformed listener address, for
\* a timestamp older than the expiry window and for one more than 60 seconds
\* ahead, and succeeds for a well-formed address whenever
\* -60 s <= now - timestamp <= expiry.
C17_SucceedsInWindow ==
    Issued("generateMerchantProof") =>
        /\ ~isAddress(script.params.listener_address) => ~Signed
        /\ Stale => ~Signed
        /\ Future => ~Signed
        /\ (isAddress(script.params.listener_address) /\ ~Stale /\ ~Future) => Signed

\* C17 amended: the simple method succeeds exactly when the listener address is
\* well-formed, the paymentId is a 32-byte hex string, and the (positive)
\* timestamp satisfies -60 s <= now - timestamp <= expiry; the proof carries the
\* timestamp and the merchant's signature over (paymentId, listener).
C17_SucceedsInWindowForBytes32 ==
    Issued("generateMerchantProof") =>
        /\ Signed <=>
               /\ isAddress(script.params.listener_address)
               /\ script.params.payment_id \in Bytes32Ids
               /\ script.params.timestamp > 0
               /\ Age <= proofExpirySeconds * 1000
               /\ Age >= -60000
        /\ \A pr \in The(retryOut) :
               /\ pr.timestamp = script.params.timestamp
               /\ pr.method = "simple"
               /\ pr.signature = Sign(MerchantAddress,
                                       <<script.params.payment_id,
                                         script.params.listener_address>>)

\* A proof issued for a timestamp exactly one expiry window old.
C17_Witness ==
    /\ Issued("generateMerchantProof") /\ Signed
    /\ script.params.listener_address = AddrGood
    /\ Age = proofExpirySeconds * 1000

\* C18: the typed (EIP-712) method produces no signature for a malformed
\* listener address, for a timestamp older than the expiry window, or for a
\* timestamp more than 60 seconds in the future.
C18_TypedMethodValidates ==
    Issued("generateEIP712Signature") =>
        /\ ~isAddress(script.params.listener_address) => ~Signed
        /\ Stale => ~Signed
        /\ Future => ~Signed

-----------------------------------------------------------------------------
(* Claims about the signature verifier (SpecVerifier) *)

Verified == script.op = "verifyListenerSignature" /\ retryOut # None

\* C21: the verifier returns true exactly when the signature was produced, by
\* the key of the claimed address (compared case-insensitively), over the message
\* made of type, paymentId, merchant, amount, timestamp and chainId in that order;
\* for a missing or malformed signature it returns false, and it always returns.
C21_TrueExactlyForOwnSignature ==
    Verified =>
        LET p == script.payload
            sig == script.signature
            out == The(retryOut) IN
        /\ out \in BOOLEAN
        /\ out <=>
               /\ sig.kind = "ecdsa"
               /\ sig.over = <<p.type, p.payment_id, p.merchant, p.amount, p.timestamp,
                               p.chain_id>>
               /\ script.listenerAddress # NoAddress
               /\ toLowerCase(sig.by) = toLowerCase(script.listenerAddress)
        /\ sig.kind # "ecdsa" => ~out

\* The listener's own signature verified against its address written in lower
\* case.
C21_Witness ==
    /\ Verified
    /\ script.signature = Sign(AddrGood, CanonicalMessage(script.payload))
    /\ script.listenerAddress = AddrGoodLower
    /\ The(retryOut) = TRUE

-----------------------------------------------------------------------------
(* Claims about the shape of the check results (SpecLedger) *)

CheckOps == {"verifyListenerRegistered", "verifyPaymentOnChain", "verifyTransactionReceipt"}

\* C22: every result of the registry check, the payment verification and the
\* receipt verification has its reason populated if and only if isValid is false.
C22_ReasonIffInvalid ==
    (script.op \in CheckOps /\ retryOut # None) =>
        (The(retryOut).reason # "" <=> ~The(retryOut).isValid)

-----------------------------------------------------------------------------
(* Claims about the payload timestamp (SpecClock) *)

\* C23: a webhook whose payload timestamp differs from the server's current
\* time by more than five minutes is rejected: it is not answered with status
\* success, it yields no proof and the paymentId is not marked.
C23_StaleRejected ==
    \A r \in ReqIds :
        (Done(r) /\ req[r].stale) =>
            /\ Answer(r).status # "success"
            /\ Answer(r).proof = NoProof
            /\ req[r].marks = 0

-----------------------------------------------------------------------------
(* Claims about the monitor's polls (SpecLive, SpecMonitor) *)

\* The job of key k is one the webhook orchestrator starts: for an order of the
\* store, with the chain argument data.chain_id.toString().
StartedByWebhook(k) ==
    /\ k \in DOMAIN orders
    /\ k \in DOMAIN monitoringJobs
    /\ monitor.timers[monitoringJobs[k]].chain = ChainId

\* C27: under a reachable ledger and fair timer ticks, a monitoring job started
\* by the webhook orchestrator for a transaction that has the required
\* confirmations is eventually removed from the active-job set.
C27_WebhookJobTerminates ==
    \A k \in OrderKeys : StartedByWebhook(k) ~> (k \notin DOMAIN monitoringJobs)

\* The same job on a chain that has a provider does terminate under SpecLive.
SupportedJobTerminates ==
    \A k \in OrderKeys :
        (/\ k \in DOMAIN orders
         /\ k \in DOMAIN monitoringJobs
         /\ monitor.timers[monitoringJobs[k]].chain \in SupportedChains)
            ~> (k \notin DOMAIN monitoringJobs)

\* What has run of the completion sequence, per timer: no email attempt without
\* the order marked, the terminal notification with every email attempt, the
\* job deregistered and its timer cleared once it has run, and the order
\* stamped when it is marked.
CompletionCounts ==
    \A id \in DOMAIN monitor.ran :
        /\ monitor.ran[id].emailed <= monitor.ran[id].marked
        /\ monitor.ran[id].notified = monitor.ran[id].emailed
        /\ monitor.ran[id].notified > 0 =>
               /\ id \notin DOMAIN monitor.timers
               /\ \A k \in DOMAIN monitoringJobs : monitoringJobs[k] # id
        /\ monitor.ran[id].marked > 0 =>
               \E k \in DOMAIN orders :
                   /\ orders[k].status = "PAYMENT_CONFIRMED"
                   /\ orders[k].confirmedAt # NoNumber

\* An invocation comes to the email only in the step that marks its order
\* confirmed, and the step in which the email attempt settles, sent or not,
\* notifies and deregisters the job.
CompletionStep ==
    /\ \A p \in BagToSet(monitor'.polls) :
           (p.pc = "email" /\ CopiesIn(p, monitor'.polls) > CopiesIn(p, monitor.polls)) =>
               /\ orders'[p.orderId].status = "PAYMENT_CONFIRMED"
               /\ orders'[p.orderId].confirmedAt # NoNumber
               /\ monitor'.ran[p.timer].marked = monitor.ran[p.timer].marked + 1
    /\ \A p \in BagToSet(monitor.polls) :
           (p.pc = "email" /\ CopiesIn(p, monitor'.polls) < CopiesIn(p, monitor.polls)) =>
               /\ monitor'.ran[p.timer].emailed = monitor.ran[p.timer].emailed + 1
               /\ monitor'.ran[p.timer].notified = monitor.ran[p.timer].notified + 1
               /\ p.orderId \notin DOMAIN monitoringJobs'

\* C28: the completion sequence of a job runs in the order mark the order
\* confirmed (with a timestamp), confirmation email attempt, terminal
\* notification, deregistration; an email attempt that fails is followed by the
\* notification and the deregistration as one that succeeds is.
C28_CompletionInOrder == [] CompletionCounts /\ [][CompletionStep]_vars

\* A job whose confirmation email failed has notified and deregistered itself.
C28_Witness ==
    \E id \in DOMAIN monitor.ran :
        /\ monitor.last.op = "email" /\ ~monitor.last.had
        /\ monitor.ran[id] = [marked |-> 1, emailed |-> 1, notified |-> 1]
        /\ id \notin DOMAIN monitor.timers
        /\ monitoringJobs = EmptyMap

\* The invocations that end in this step short of the completion sequence's
\* end: by an error, or below the threshold.
EndsEarly(p) ==
    /\ p.pc # "email"
    /\ CopiesIn(p, monitor'.polls) < CopiesIn(p, monitor.polls)
    /\ BagCardinality(monitor'.polls) < BagCardinality(monitor.polls)

FailedPollKeepsJob ==
    (\E p \in BagToSet(monitor.polls) : EndsEarly(p)) =>
        /\ UNCHANGED monitoringJobs
        /\ monitor'.timers = monitor.timers
        /\ \A k \in DOMAIN orders :
               /\ orders'[k].status = orders[k].status
               /\ orders'[k].confirmedAt = orders[k].confirmedAt

ConfirmedOnlyByCompletion ==
    \A k \in DOMAIN orders :
        orders[k].status = "PAYMENT_CONFIRMED" =>
            \E id \in DOMAIN monitor.ran :
                monitor.ran[id].marked >= 1

\* C29: a poll that raises an error leaves the job in the active-job set with
\* its timer live, so that the timer fires again; failing polls neither remove a
\* job nor mark an order confirmed.
C29_FailedPollKeepsJob ==
    [] ConfirmedOnlyByCompletion /\ [][FailedPollKeepsJob]_vars

\* After a failed poll of a job, a later poll of it has got past the ledger and
\* the store, the job still active and its order not yet marked confirmed.
C29_Witness ==
    \E id \in DOMAIN monitor.timers :
        /\ monitor.last.op = "error" /\ monitor.last.had
        /\ monitor.last.orderId = monitor.timers[id].orderId
        /\ monitor.nextTimer = 2
        /\ monitor.timers[id].orderId \in DOMAIN monitoringJobs
        /\ monitor.ran[id].marked = 0
        /\ PollsOf(id, "confirm") # {}
        /\ BagCardinality(monitor.polls) = 1
        /\ orders[monitor.timers[id].orderId].status # "PAYMENT_CONFIRMED"

-----------------------------------------------------------------------------
(* Claims about the start of confirmation monitoring (SpecOrders) *)

\* The request r leaves STEP 6 in this step: every check has accepted its claim.
LeavesOrderStep(r) == req[r].pc \in {"orderFind", "orderUpdate", "email"} /\ req'[r].pc = "log"

\* The order keys of the request: its paymentId and the orderId of the row it
\* has found.
OrderKeysOf(r) == {req[r].payment_id} \cup {o.orderId : o \in req[r].order}

StartsJobWhenAccepted ==
    \A r \in ReqIds :
        /\ (LeavesOrderStep(r) /\ req[r].type \in {"payment.pending", "payment.completed"}) =>
               OrderKeysOf(r) \cap DOMAIN monitoringJobs' # {}
        /\ (req'[r] # req[r] /\ req[r].type \in {"payment.confirmed", "payment.failed"}) =>
               UNCHANGED <<monitoringJobs, monitor>>

\* C30: every accepted claim of type payment.pending or payment.completed leaves
\* the order step with a monitoring job active for an order key of its, and no step
\* of a claim of type payment.confirmed or payment.failed starts a job.
C30_AcceptedClaimIsMonitored == [][StartsJobWhenAccepted]_vars

-----------------------------------------------------------------------------
(* Claims about the order's status (SpecOrders) *)

\* The order k is marked confirmed in this step.
BecomesConfirmed(k) ==
    orders[k].status # "PAYMENT_CONFIRMED" /\ orders'[k].status = "PAYMENT_CONFIRMED"

\* The request whose order update runs in this step had a receipt check that
\* reported no count, or a count below the required threshold.
ReportsBelowThreshold(r) ==
    /\ req[r].pc = "orderUpdate" /\ req'[r].pc = "email"
    /\ ConfirmationsOr1(req[r].confirmations) < REQUIRED_CONFIRMATIONS

ConfirmedAtThreshold ==
    /\ \A k \in DOMAIN orders :
           BecomesConfirmed(k) => orders'[k].confirmations >= REQUIRED_CONFIRMATIONS
    /\ \A r \in ReqIds :
           ReportsBelowThreshold(r) =>
               orders'[The(req[r].order).orderId].status # "PAYMENT_CONFIRMED"

\* C31: an order's status becomes PAYMENT_CONFIRMED only when the confirmations
\* of its transaction have reached the required threshold; a webhook whose
\* receipt check reports fewer confirmations than required does not set the
\* order to PAYMENT_CONFIRMED.
C31_ConfirmedOnlyAtThreshold == [][ConfirmedAtThreshold]_vars

-----------------------------------------------------------------------------
(* Claims about the collaborators of the pipeline (SpecCollab) *)

\* The proof of the response names the request's paymentId and listener.
ProofNames(r) ==
    \A pr \in Answer(r).proof :
        /\ pr.payment_id = req[r].payment_id
        /\ pr.listener = req[r].listenerAddress
        /\ pr.merchant_signature =
               Sign(MerchantAddress, <<req[r].payment_id, req[r].listenerAddress>>)

\* C32: for a claim that passes the signature, registry and payment checks, a
\* failure of the order-store lookup or update, of the email send, of a push
\* notification or of the webhook-log write does not change the verdict:
\* whichever of these calls have failed, the response is status success with the
\* proof the claim gets when none fails, and the paymentId is marked processed
\* as it is when none fails (once, when a listener address was supplied).
C32_CollaboratorFailuresKeepVerdict ==
    \A r \in ReqIds :
        (Done(r) /\ req[r].passed) =>
            /\ req[r].collab \subseteq Collaborators
            /\ Answer(r).status = "success"
            /\ Answer(r).code = 200
            /\ Answer(r).proof # NoProof <=>
                   (req[r].payment_id \in Bytes32Ids /\ isAddress(req[r].listenerAddress))
            /\ ProofNames(r)
            /\ req[r].marks = IF req[r].listenerAddress # NoAddress THEN 1 ELSE 0
            /\ (req[r].listenerAddress # NoAddress /\ now - req[r].doneAt <= maxAge) =>
                   isWebhookProcessed(processedWebhooks, req[r].payment_id)

\* A claim whose email, emits and webhook-log write all failed is answered with
\* its proof and is marked.
C32_Witness ==
    \E r \in ReqIds :
        /\ Done(r) /\ req[r].passed /\ req[r].sigVerified
        /\ req[r].collab = {"email", "push", "log"}
        /\ Answer(r).status = "success"
        /\ Answer(r).proof # NoProof
        /\ req[r].marks = 1
        /\ isWebhookProcessed(processedWebhooks, req[r].payment_id)

\* The receipt check of the request r returns in this step.
ReceiptReturns(r) == req[r].pc = "receipt" /\ req'[r].pc # "receipt"

\* Whatever the receipt check returns, the request goes on to the order step,
\* unanswered.
ReceiptIsAdvisory ==
    \A r \in ReqIds :
        ReceiptReturns(r) =>
            /\ req'[r].pc = "orderFind"
            /\ req'[r].res = NoResponse
            /\ req'[r].passed

\* A request that passed the checks and came to the order step is answered
\* only after the proof generator was called and the paymentId committed, when
\* it supplied a listener address.
PassedIsCommitted ==
    \A r \in ReqIds :
        (Done(r) /\ req[r].passed) =>
            /\ Answer(r).status = "success"
            /\ req[r].listenerAddress # NoAddress =>
                   /\ req[r].proofCalls = 1
                   /\ req[r].marks = 1
                   /\ Len(MarksOf(req[r].payment_id)) >= 1

\* C33: a failed receipt verification (receipt absent, failed status, or
\* confirmations below the minimum) does not abort the pipeline: a claim that
\* passed the signature, registry and payment checks still proceeds to proof
\* generation and the duplicate-tracker commit.
C33_ReceiptFailureDoesNotAbort == [] PassedIsCommitted /\ [][ReceiptIsAdvisory]_vars

\* A claim whose receipt check failed has had its order written with the
\* default count of 1, and is answered with its proof and committed.
C33_Witness ==
    \E r \in ReqIds :
        /\ Done(r) /\ req[r].passed /\ req[r].sigVerified
        /\ req[r].payment_id \in DOMAIN orders
        /\ orders[req[r].payment_id].transactionHash # None
        /\ orders[req[r].payment_id].confirmations < minConfirmations
        /\ req[r].proofCalls = 1 /\ req[r].marks = 1
        /\ Answer(r).proof # NoProof
        /\ isWebhookProcessed(processedWebhooks, req[r].payment_id)

-----------------------------------------------------------------------------
(* Claims about the tracker's sweep (SpecTracker) *)

\* The age at time t of the entry the tracker holds for p: t less the entry's
\* timestamp.
AgeAt(t, p) == t - processedWebhooks[p].timestamp

\* What a sweep of the tracker at the present instant leaves.
Swept == cleanup(processedWebhooks, now)

SweepIsExact ==
    \A p \in DOMAIN processedWebhooks :
        /\ AgeAt(now, p) > maxAge => ~isWebhookProcessed(Swept, p)
        /\ AgeAt(now, p) <= maxAge =>
               /\ isWebhookProcessed(Swept, p)
               /\ getProcessingListener(Swept, p) = Some(processedWebhooks[p])

\* The entries deleted in a step are those a sweep at that instant removes, and
\* no entry is deleted by anything but the sweep.
DeletedBySweep ==
    LET deleted == (DOMAIN processedWebhooks) \ (DOMAIN processedWebhooks') IN
    deleted # {} =>
        /\ now' = now
        /\ deleted = {p \in DOMAIN processedWebhooks : AgeAt(now, p) > maxAge}
        /\ \A p \in DOMAIN processedWebhooks' : processedWebhooks'[p] = processedWebhooks[p]

\* C34: a sweep at time t removes exactly the entries whose age, t less the
\* timestamp the entry holds, is strictly greater than 24 h; an entry whose age
\* is at most 24 h at sweep time, including one marked at the instant of the
\* sweep, is retained and isProcessed stays true for it.
C34_SweepRemovesStrictlyOlder == [] SweepIsExact /\ [][DeletedBySweep]_vars

\* A sweep has removed an entry a millisecond older than the window and kept
\* one marked at the instant of the sweep.
C34_Witness ==
    /\ PidHex \in evicted
    /\ ~isWebhookProcessed(processedWebhooks, PidHex)
    /\ now - MarksOf(PidHex)[Len(MarksOf(PidHex))].timestamp = maxAge + 1
    /\ isWebhookProcessed(processedWebhooks, PidText)
    /\ AgeAt(now, PidText) = 0

-----------------------------------------------------------------------------
(* Claims about polls in flight when their job ends (SpecMonitor) *)

\* The invocation p of the interval callback takes a step.
Advances(p) == CopiesIn(p, monitor'.polls) < CopiesIn(p, monitor.polls)

\* The step writes to the order store, or makes the terminal notification of
\* timer id.
WritesOrNotifies(id) ==
    \/ orders' # orders
    \/ monitor'.ran[id].notified # monitor.ran[id].notified

\* The job of timer id has been stopped: its timer is cleared and the registry
\* does not hold it.
Stopped(id) ==
    /\ id \notin DOMAIN monitor.timers
    /\ \A k \in DOMAIN monitoringJobs : monitoringJobs[k] # id

NothingForStoppedJob ==
    \A p \in BagToSet(monitor.polls) :
        (Advances(p) /\ WritesOrNotifies(p.timer)) => ~Stopped(p.timer)

\* C35: after stopMonitoring(orderKey) has returned, no order-store write and no
\* notification is performed on behalf of the stopped job, even if one of its
\* polls was in flight when the stop was issued.
C35_NoWriteAfterStop == [][NothingForStoppedJob]_vars

\* The invocation p runs the end of the completion sequence in this step.
Completes(p) == p.pc = "email" /\ Advances(p)

DeregistersOwnJobOnly ==
    \A p \in BagToSet(monitor.polls) :
        Completes(p) =>
            \A k \in DOMAIN monitoringJobs :
                monitoringJobs[k] # p.timer =>
                    /\ k \in DOMAIN monitoringJobs'
                    /\ monitoringJobs'[k] = monitoringJobs[k]
                    /\ monitoringJobs[k] \in DOMAIN monitor'.timers

\* C36: a poll only ever deregisters its own job: when a job for an order key
\* has been stopped and a new job started for the same key while a poll of the
\* old job is in flight, the new job is still in the active-job set with its
\* timer running when the old poll completes at or above the threshold.
C36_PollDeregistersOwnJob == [][DeregistersOwnJobOnly]_vars

-----------------------------------------------------------------------------
(* Claims about the failures that degraded mode lets pass (SpecLedger) *)

\* C37: in degraded mode the registry check fails open only when the registry
\* query failed with a transient ledger error that exhausted the retry budget;
\* a failure of the query that is not transient (a malformed listener address
\* rejected before any ledger call) yields isValid = false in degraded mode too.
C37_FailsOpenOnlyOnTransient ==
    (Registered /\ ~Queried.returned /\ env.ALLOW_DURING_RPC_FAILURE = Some("true")) =>
        /\ The(retryOut).isValid =>
               /\ FailsTransient(Queried.outcome)
               /\ Queried.calls = maxRetries
        /\ FailsOtherwise(Queried.outcome) => ~The(retryOut).isValid
====
